---------------------------- MODULE Spec2Model ----------------------------
(***************************************************************************)
(* Model of the cost-aware-backend demonstrations.                         *)
(*                                                                         *)
(*   Day 1  struct layout: BadUser / GoodUser, unsafe.Sizeof and           *)
(*          unsafe.Offsetof as used by Test_StructSizes and                *)
(*          Test_MemoryAlignment.                                          *)
(*   Day 2  slice growth: benchmarkNaiveAppend, benchmarkWithMake,         *)
(*          benchmarkFixedArray, calculateGrowth and the append loops of   *)
(*          Test_PreallocationSavings / Test_MemoryEfficiency.             *)
(*                                                                         *)
(* Each day is an independent program, so each has its own specification   *)
(* over the shared variable list: SpecLayout and SpecGrowth.               *)
(***************************************************************************)
EXTENDS Integers, Sequences, FiniteSets

VARIABLES
    \* ---- Day 1 ----
    badFields,      \* declaration order of the first struct type
    goodFields,     \* declaration order of the second struct type
    badSize,        \* Test_StructSizes: badSize  (-1 = not measured)
    goodSize,       \* Test_StructSizes: goodSize (-1 = not measured)
    badOffsets,     \* Test_MemoryAlignment: offsets of the first type's fields
    goodOffsets,    \* Test_MemoryAlignment: offsets of the second type's fields
    \* ---- Day 2 ----
    fn,             \* the function being run
    pc,             \* "call" | "loop" | "done"
    count,          \* the function's argument (count / target)
    i,              \* loop index
    dataLen,        \* len(data)
    dataCap,        \* cap(data)
    allocations,    \* the counter the benchmark function returns
    allocCount,     \* capacity increases seen (cap(s) > oldCap), as Test_PreallocationSavings counts
    copied,         \* elements copied from old to new backing arrays by append
    cap,            \* calculateGrowth: cap
    reallocs,       \* calculateGrowth: reallocs
    waste,          \* calculateGrowth: third result (cap - target)
    \* ---- Day 3: Test_PreallocationImpact ----
    tpiPc,          \* "idle" | "run1" | "run2" | "check" | "done"
    size,           \* size (entries inserted by each closure run)
    runs,           \* closure runs completed in the current AllocsPerRun
    j,              \* closure loop index (-1: the closure is not running)
    mLen,           \* len(m)
    mBuckets,       \* number of buckets of m
    mallocs,        \* allocations counted by the current AllocsPerRun
    alloc1,         \* allocations per run without pre-allocation (-1 = not measured)
    alloc2,         \* allocations per run with pre-allocation (-1 = not measured)
    tpiFailed,      \* t.Error was called
    \* ---- the demo drivers (main of Day 1, Day 2, Day 3) ----
    day,            \* which day's main runs (0: none)
    dpc,            \* position in main: the step main completed last
    calls,          \* the calls main has made, in order, with their arguments
    meas,           \* values measured so far (name -> value)
    out,            \* figures printed so far (name -> value)
    \* ---- repeated calls of the measurement functions ----
    pkg,            \* which day's package runs (0: none)
    helper,         \* the call is one iteration of a benchmark function's loop
    callNo,         \* number of the current call
    results,        \* what the calls completed so far returned
    globals,        \* the package's module-level variables
    totalMemory,    \* benchmarkBadUser / benchmarkGoodUser: totalMemory
    \* ---- memory measurements ----
    mfn,            \* the measuring function
    mpc,            \* statements of it executed so far
    trace,          \* the kinds of the statements executed, in order
    heap,           \* the runtime's memory statistics
    snap,           \* the MemStats snapshots taken, in order
    report,         \* the values reported, in order
    \* ---- further functions, each with its locals in one record ----
    demo,           \* demoSliceGrowthProblem / Test_SliceGrowthPattern
    contents,       \* the three strategies, with the elements stored
    search,         \* the binary search of Benchmark_SliceLookupBinarySearch
    template,       \* the template's benchmarks and correctness test
    wide            \* calculateGrowth on 64-bit integers

layoutVars == <<badFields, goodFields, badSize, goodSize, badOffsets, goodOffsets>>
growthVars == <<fn, pc, count, i, dataLen, dataCap, allocations, allocCount,
                copied, cap, reallocs, waste>>
mapVars == <<tpiPc, size, runs, j, mLen, mBuckets, mallocs, alloc1, alloc2, tpiFailed>>
driverVars == <<day, dpc, calls, meas, out>>
callVars == <<pkg, helper, callNo, results, globals, totalMemory>>
measVars == <<mfn, mpc, trace, heap, snap, report>>
recVars == <<demo, contents, search, template, wide>>
extVars == <<mapVars, driverVars, callVars, measVars, recVars>>
notMapVars == <<layoutVars, growthVars, driverVars, callVars, measVars, recVars>>
notDriverVars == <<layoutVars, growthVars, mapVars, callVars, measVars, recVars>>
notCallVars == <<layoutVars, mapVars, driverVars, measVars, recVars>>
notMeasVars == <<layoutVars, growthVars, mapVars, driverVars, callVars, recVars>>
notRecVars == <<layoutVars, growthVars, mapVars, driverVars, callVars, measVars>>
vars == <<layoutVars, growthVars, extVars>>

(***************************************************************************)
(* Bounds                                                                  *)
(***************************************************************************)
MaxCount == 1300

NegTargets == 2

\* Largest size Test_PreallocationImpact is run with.
MaxEntries == 1000

\* Runs averaged by testing.AllocsPerRun (100 in Test_PreallocationImpact).
AllocRuns == 2

\* Calls in a sequence of measurement calls.
MaxCalls == 2

\* Largest count passed to a measurement function that is called repeatedly.
MaxRepeatCount == 2

\* Largest count the strategies are run with when their elements are followed.
MaxStored == 20

\* b.N of the lookup benchmark whose searches are followed.
MaxSearchN == 1001

\* Largest b.N the testing framework passes to a benchmark function.
MaxBenchN == 2

\* Largest elapsed time a timer reports, in nanoseconds.
MaxNs == 3

\* Largest difference of two memory snapshots, in bytes.
MaxBytes == 3

(***************************************************************************)
(* Day 1: struct layout                                                    *)
(***************************************************************************)
\* Field types with Go's size and alignment on a 64-bit platform.
ID == [name |-> "ID", type |-> "int32", size |-> 4, align |-> 4]

Active == [name |-> "Active", type |-> "bool", size |-> 1, align |-> 1]

Name == [name |-> "Name", type |-> "string", size |-> 16, align |-> 8]

Age == [name |-> "Age", type |-> "int8", size |-> 1, align |-> 1]

BadUser == <<ID, Active, Name, Age>>

GoodUser == <<ID, Age, Active, Name>>

FieldSet == {ID, Active, Name, Age}

\* Every declaration order of the same field set.
Orders == {s \in [1..4 -> FieldSet] : \A f \in FieldSet : \E k \in 1..4 : s[k] = f}

Max(a, b) == IF a >= b THEN a ELSE b

\* Packed layout: no alignment at all.
AlignUpPacked(off, align) == off

\* Round off up to the next multiple of align.
AlignUp(off, align) == ((off + align - 1) \div align) * align

RECURSIVE EndOf(_, _)
\* Offset just past field k of fields (0 for k = 0).
EndOf(fields, k) ==
    IF k = 0 THEN 0
    ELSE AlignUp(EndOf(fields, k - 1), fields[k].align) + fields[k].size

\* An offset that is not rounded up to the field's own alignment.
OffsetofUnaligned(fields, k) == EndOf(fields, k - 1)

\* unsafe.Offsetof of field k.
Offsetof(fields, k) == AlignUp(EndOf(fields, k - 1), fields[k].align)

RECURSIVE MaxAlign(_, _)
MaxAlign(fields, k) ==
    IF k = 0 THEN 1 ELSE Max(MaxAlign(fields, k - 1), fields[k].align)

RECURSIVE SumSlots(_, _, _)
SumSlots(fields, k, a) ==
    IF k = 0 THEN 0
    ELSE SumSlots(fields, k - 1, a) + ((fields[k].size + a - 1) \div a) * a

\* A layout that gives every field a slot rounded up to the struct alignment,
\* whatever the declaration order.
SizeofSlotPerField(fields) ==
    SumSlots(fields, Len(fields), MaxAlign(fields, Len(fields)))

\* unsafe.Sizeof: the end of the last field rounded up to the struct's alignment.
Sizeof(fields) ==
    AlignUp(EndOf(fields, Len(fields)), MaxAlign(fields, Len(fields)))

RECURSIVE SumSizes(_, _)
SumSizes(fields, k) ==
    IF k = 0 THEN 0 ELSE SumSizes(fields, k - 1) + fields[k].size

\* Bytes of a struct that hold no field.
Padding(fields) == Sizeof(fields) - SumSizes(fields, Len(fields))

MapIdle ==
    /\ tpiPc = "idle" /\ size = 0 /\ runs = 0 /\ j = -1
    /\ mLen = 0 /\ mBuckets = 0 /\ mallocs = 0
    /\ alloc1 = -1 /\ alloc2 = -1 /\ tpiFailed = FALSE

DriverIdle ==
    /\ day = 0 /\ dpc = "main" /\ calls = <<>> /\ meas = <<>> /\ out = <<>>

\* A slice variable holding nil.
NilSlice == [id |-> 0, len |-> 0, cap |-> 0]

\* The module-level variables of the benchmark files, zero-valued.
ZeroGlobals ==
    [globalIntSlice |-> NilSlice, globalBadUsers |-> NilSlice,
     globalGoodUsers |-> NilSlice, globalInt |-> 0]

CallIdle ==
    /\ pkg = 0 /\ helper = FALSE /\ callNo = 0 /\ results = {}
    /\ globals = ZeroGlobals /\ totalMemory = 0

\* runtime.MemStats of a process that has allocated nothing.
ZeroHeap == [TotalAlloc |-> 0, Alloc |-> 0, Mallocs |-> 0]

MeasIdle ==
    /\ mfn = "none" /\ mpc = 0 /\ trace = <<>> /\ heap = ZeroHeap
    /\ snap = <<>> /\ report = <<>>

\* A 64-bit word as four 16-bit limbs, least significant first: zero.
W0 == <<0, 0, 0, 0>>

DemoIdle ==
    [fn |-> "none", pc |-> "idle", k |-> 0, i |-> 0, len |-> 0, cap |-> 0,
     lines |-> <<>>, errors |-> 0]

ContentsIdle ==
    [fn |-> "none", pc |-> "idle", count |-> 0, i |-> 0, len |-> 0, array |-> <<>>]

SearchIdle ==
    [pc |-> "idle", N |-> 0, i |-> 0, key |-> 0, low |-> 0, high |-> 0,
     found |-> "", probes |-> <<>>, misses |-> 0]

TemplateIdle ==
    [fn |-> "none", pc |-> "idle", N |-> 0, i |-> 0, j |-> 0, result |-> 0,
     globalResult |-> 0, originalResult |-> "", optimizedResult |-> "", errors |-> 0]

WideIdle ==
    [pc |-> "idle", target |-> W0, cap |-> W0, oldCap |-> W0, reallocs |-> 0,
     waste |-> W0]

RecIdle ==
    /\ demo = DemoIdle /\ contents = ContentsIdle /\ search = SearchIdle
    /\ template = TemplateIdle /\ wide = WideIdle

ExtIdle == MapIdle /\ DriverIdle /\ CallIdle /\ MeasIdle /\ RecIdle

GrowthIdle ==
    /\ fn = "none" /\ pc = "idle" /\ count = 0 /\ i = 0
    /\ dataLen = 0 /\ dataCap = 0 /\ allocations = 0 /\ allocCount = 0
    /\ copied = 0 /\ cap = 0 /\ reallocs = 0 /\ waste = 0

InitLayout ==
    /\ badFields \in Orders
    /\ goodFields \in Orders
    /\ badSize = -1 /\ goodSize = -1
    /\ badOffsets = <<>> /\ goodOffsets = <<>>
    /\ GrowthIdle
    /\ ExtIdle

Test_StructSizes ==
    /\ badSize = -1
    /\ badSize' = Sizeof(badFields)
    /\ goodSize' = Sizeof(goodFields)
    /\ UNCHANGED <<badFields, goodFields, badOffsets, goodOffsets, growthVars, extVars>>

Test_MemoryAlignment ==
    /\ badOffsets = <<>>
    /\ badOffsets' = [k \in 1..Len(badFields) |-> Offsetof(badFields, k)]
    /\ goodOffsets' = [k \in 1..Len(goodFields) |-> Offsetof(goodFields, k)]
    /\ UNCHANGED <<badFields, goodFields, badSize, goodSize, growthVars, extVars>>

NextLayout == Test_StructSizes \/ Test_MemoryAlignment

SpecLayout == InitLayout /\ [][NextLayout]_vars

(***************************************************************************)
(* Day 2: slice growth                                                     *)
(***************************************************************************)
\* Below this capacity append doubles; from it on it grows by 25%.
DoublingThreshold == 1024

Fns == {"benchmarkNaiveAppend", "benchmarkWithMake", "benchmarkFixedArray",
        "calculateGrowth"}

\* A growth policy that always doubles.
growsliceAlwaysDouble(oldCap) == IF oldCap = 0 THEN 1 ELSE oldCap * 2

\* A growth policy whose first allocation holds two elements.
growsliceFromTwo(oldCap) ==
    IF oldCap = 0 THEN 2
    ELSE IF oldCap < DoublingThreshold THEN oldCap * 2
    ELSE oldCap + oldCap \div 4

\* The capacity append gives a full slice of capacity oldCap that receives one
\* more element: 0 -> 1, doubling below the threshold, +25% from it on.
growslice(oldCap) ==
    IF oldCap = 0 THEN 1
    ELSE IF oldCap < DoublingThreshold THEN oldCap * 2
    ELSE oldCap + oldCap \div 4

\* An append that never grows the backing array.
appendNoGrow(s) ==
    [len |-> s.len + 1, cap |-> s.cap, copied |-> 0, grew |-> FALSE]

\* data = append(data, x) on a slice header [len, cap]: grows only when the
\* slice is full, and then copies the len elements already stored.
append(s) ==
    IF s.len = s.cap
    THEN [len |-> s.len + 1, cap |-> growslice(s.cap), copied |-> s.len, grew |-> TRUE]
    ELSE [len |-> s.len + 1, cap |-> s.cap, copied |-> 0, grew |-> FALSE]

\* make([]int, 0, n) reserving one slot too few.
makeCapShort(n) == [len |-> 0, cap |-> IF n > 0 THEN n - 1 ELSE 0]

\* make([]int, 0, n)
makeCap(n) == [len |-> 0, cap |-> n]

\* make([]int, n)
makeLen(n) == [len |-> n, cap |-> n]

data == [len |-> dataLen, cap |-> dataCap]

LayoutIdle ==
    /\ badFields = <<>> /\ goodFields = <<>>
    /\ badSize = -1 /\ goodSize = -1
    /\ badOffsets = <<>> /\ goodOffsets = <<>>

InitGrowth ==
    /\ LayoutIdle
    /\ ExtIdle
    /\ fn \in Fns
    /\ count \in IF fn = "calculateGrowth" THEN (0 - NegTargets)..MaxCount
                 ELSE 0..MaxCount
    /\ pc = "call"
    /\ i = 0 /\ dataLen = 0 /\ dataCap = 0 /\ allocations = 0
    /\ allocCount = 0 /\ copied = 0 /\ cap = 0 /\ reallocs = 0 /\ waste = 0

\* The naive loop started on the slice the module-level variable holds.
NaiveAppendBeginFromGlobal ==
    /\ fn = "benchmarkNaiveAppend" /\ pc = "call"
    /\ allocations' = 0
    /\ dataLen' = globals.globalIntSlice.len /\ dataCap' = globals.globalIntSlice.cap
    /\ i' = 0
    /\ pc' = "loop"
    /\ UNCHANGED <<layoutVars, extVars, fn, count, allocCount, copied, cap, reallocs, waste>>

\* The naive loop started on a slice that already has capacity count.
NaiveAppendBeginPresized ==
    /\ fn = "benchmarkNaiveAppend" /\ pc = "call"
    /\ allocations' = 0
    /\ dataLen' = 0 /\ dataCap' = count
    /\ i' = 0
    /\ pc' = "loop"
    /\ UNCHANGED <<layoutVars, extVars, fn, count, allocCount, copied, cap, reallocs, waste>>

\* allocations := 0; var data []int
NaiveAppendBegin ==
    /\ fn = "benchmarkNaiveAppend" /\ pc = "call"
    /\ allocations' = 0
    /\ dataLen' = 0 /\ dataCap' = 0
    /\ i' = 0
    /\ pc' = "loop"
    /\ UNCHANGED <<layoutVars, extVars, fn, count, allocCount, copied, cap, reallocs, waste>>

\* one iteration: data = append(data, i); allocations++
NaiveAppendIter ==
    /\ fn = "benchmarkNaiveAppend" /\ pc = "loop" /\ i < count
    /\ LET r == append(data) IN
        /\ dataLen' = r.len
        /\ dataCap' = r.cap
        /\ copied' = copied + r.copied
        /\ allocCount' = IF r.cap > dataCap THEN allocCount + 1 ELSE allocCount
    /\ allocations' = allocations + 1
    /\ i' = i + 1
    /\ UNCHANGED <<layoutVars, extVars, fn, pc, count, cap, reallocs, waste>>

\* return time.Since(start), allocations
NaiveAppendReturn ==
    /\ fn = "benchmarkNaiveAppend" /\ pc = "loop" /\ ~(i < count)
    /\ pc' = "done"
    /\ UNCHANGED <<layoutVars, extVars, fn, count, i, dataLen, dataCap, allocations,
                   allocCount, copied, cap, reallocs, waste>>

\* allocations := 1; data := make([]int, 0, count)
WithMakeBegin ==
    /\ fn = "benchmarkWithMake" /\ pc = "call"
    /\ allocations' = 1
    /\ dataLen' = makeCap(count).len /\ dataCap' = makeCap(count).cap
    /\ i' = 0
    /\ pc' = "loop"
    /\ UNCHANGED <<layoutVars, extVars, fn, count, allocCount, copied, cap, reallocs, waste>>

\* one iteration: data = append(data, i)
WithMakeIter ==
    /\ fn = "benchmarkWithMake" /\ pc = "loop" /\ i < count
    /\ LET r == append(data) IN
        /\ dataLen' = r.len
        /\ dataCap' = r.cap
        /\ copied' = copied + r.copied
        /\ allocCount' = IF r.cap > dataCap THEN allocCount + 1 ELSE allocCount
    /\ i' = i + 1
    /\ UNCHANGED <<layoutVars, extVars, fn, pc, count, allocations, cap, reallocs, waste>>

WithMakeReturn ==
    /\ fn = "benchmarkWithMake" /\ pc = "loop" /\ ~(i < count)
    /\ pc' = "done"
    /\ UNCHANGED <<layoutVars, extVars, fn, count, i, dataLen, dataCap, allocations,
                   allocCount, copied, cap, reallocs, waste>>

\* allocations := 1; data := make([]int, count)
FixedArrayBegin ==
    /\ fn = "benchmarkFixedArray" /\ pc = "call"
    /\ allocations' = 1
    /\ dataLen' = makeLen(count).len /\ dataCap' = makeLen(count).cap
    /\ i' = 0
    /\ pc' = "loop"
    /\ UNCHANGED <<layoutVars, extVars, fn, count, allocCount, copied, cap, reallocs, waste>>

\* one iteration: data[i] = i  (an index inside len(data); nothing grows)
FixedArrayIter ==
    /\ fn = "benchmarkFixedArray" /\ pc = "loop" /\ i < count
    /\ i < dataLen
    /\ i' = i + 1
    /\ UNCHANGED <<layoutVars, extVars, fn, pc, count, dataLen, dataCap, allocations,
                   allocCount, copied, cap, reallocs, waste>>

FixedArrayReturn ==
    /\ fn = "benchmarkFixedArray" /\ pc = "loop" /\ ~(i < count)
    /\ pc' = "done"
    /\ UNCHANGED <<layoutVars, extVars, fn, count, i, dataLen, dataCap, allocations,
                   allocCount, copied, cap, reallocs, waste>>

\* cap := 0; reallocs = 0
calculateGrowthBegin ==
    /\ fn = "calculateGrowth" /\ pc = "call"
    /\ cap' = 0
    /\ reallocs' = 0
    /\ pc' = "loop"
    /\ UNCHANGED <<layoutVars, extVars, fn, count, i, dataLen, dataCap, allocations,
                   allocCount, copied, waste>>

\* calculateGrowth's loop as a function of its locals: for cap < target { ... }
RECURSIVE growLoop(_, _, _)
growLoop(c, r, target) ==
    IF c < target
    THEN growLoop(IF c = 0 THEN 1
                  ELSE IF c < DoublingThreshold THEN c * 2
                  ELSE c + c \div 4,
                  IF c > 0 THEN r + 1 ELSE r,
                  target)
    ELSE [cap |-> c, reallocs |-> r]

\* calculateGrowth returning one reallocation more than its loop counted.
calculateGrowthOfCountsFirst(target) ==
    LET g == growLoop(0, 0, target)
    IN [finalCap |-> g.cap, reallocs |-> g.reallocs + 1, waste |-> g.cap - target]

\* calculateGrowth(target) as a function: (finalCap, reallocs, waste)
calculateGrowthOf(target) ==
    LET g == growLoop(0, 0, target)
    IN [finalCap |-> g.cap, reallocs |-> g.reallocs, waste |-> g.cap - target]

\* A loop step that grows by half from the threshold on.
calculateGrowthIterHalf ==
    /\ fn = "calculateGrowth" /\ pc = "loop" /\ cap < count
    /\ cap' = IF cap = 0 THEN 1
              ELSE IF cap < DoublingThreshold THEN cap * 2
              ELSE cap + cap \div 2
    /\ reallocs' = IF cap > 0 THEN reallocs + 1 ELSE reallocs
    /\ UNCHANGED <<layoutVars, extVars, fn, pc, count, i, dataLen, dataCap, allocations,
                   allocCount, copied, waste>>

\* one iteration of: for cap < target { ... }
calculateGrowthIter ==
    /\ fn = "calculateGrowth" /\ pc = "loop" /\ cap < count
    /\ cap' = IF cap = 0 THEN 1
              ELSE IF cap < DoublingThreshold THEN cap * 2
              ELSE cap + cap \div 4
    /\ reallocs' = IF cap > 0 THEN reallocs + 1 ELSE reallocs
    /\ UNCHANGED <<layoutVars, extVars, fn, pc, count, i, dataLen, dataCap, allocations,
                   allocCount, copied, waste>>

\* return cap, reallocs, cap - target
calculateGrowthReturn ==
    /\ fn = "calculateGrowth" /\ pc = "loop" /\ ~(cap < count)
    /\ waste' = cap - count
    /\ pc' = "done"
    /\ UNCHANGED <<layoutVars, extVars, fn, count, i, dataLen, dataCap, allocations,
                   allocCount, copied, cap, reallocs>>

NextGrowth ==
    \/ NaiveAppendBegin \/ NaiveAppendIter \/ NaiveAppendReturn
    \/ WithMakeBegin \/ WithMakeIter \/ WithMakeReturn
    \/ FixedArrayBegin \/ FixedArrayIter \/ FixedArrayReturn
    \/ calculateGrowthBegin \/ calculateGrowthIter \/ calculateGrowthReturn

SpecGrowth == InitGrowth /\ [][NextGrowth]_vars

(***************************************************************************)
(* Day 3: map growth, Test_PreallocationImpact                             *)
(***************************************************************************)
\* Entries one bucket holds.
BucketCnt == 8

\* The load factor 6.5 = LoadFactorNum / LoadFactorDen.
LoadFactorNum == 13

LoadFactorDen == 2

\* Whether n entries in b buckets exceed the load factor.
overLoadFactor(n, b) ==
    n > BucketCnt /\ n * LoadFactorDen > LoadFactorNum * b

RECURSIVE bucketsFrom(_, _)
bucketsFrom(hint, b) ==
    IF overLoadFactor(hint, b) THEN bucketsFrom(hint, 2 * b) ELSE b

\* A size hint that is ignored: the map starts with one bucket.
makemapNoHint(hint) == 1

\* make(map[int]string, hint): the fewest buckets (a power of two) that hold
\* hint entries within the load factor.
makemap(hint) == bucketsFrom(hint, 1)

\* m[k] = v for a key not in m: the bucket array doubles (one allocation,
\* every entry rehashed) when the new entry would exceed the load factor.
mapassign(m) ==
    IF overLoadFactor(m.len + 1, m.buckets)
    THEN [len |-> m.len + 1, buckets |-> 2 * m.buckets, grew |-> TRUE]
    ELSE [len |-> m.len + 1, buckets |-> m.buckets, grew |-> FALSE]

InitMap ==
    /\ LayoutIdle
    /\ GrowthIdle
    /\ DriverIdle /\ CallIdle /\ MeasIdle /\ RecIdle
    /\ tpiPc = "run1"
    /\ size \in 0..MaxEntries
    /\ runs = 0 /\ j = -1
    /\ mLen = 0 /\ mBuckets = 0 /\ mallocs = 0
    /\ alloc1 = -1 /\ alloc2 = -1 /\ tpiFailed = FALSE

\* first closure: m := make(map[int]string)
Closure1Begin ==
    /\ tpiPc = "run1" /\ runs < AllocRuns /\ j = -1
    /\ mLen' = 0 /\ mBuckets' = 1
    /\ mallocs' = mallocs + 1
    /\ j' = 0
    /\ UNCHANGED <<notMapVars, tpiPc, size, runs, alloc1, alloc2, tpiFailed>>

\* second closure: m := make(map[int]string, size)
Closure2Begin ==
    /\ tpiPc = "run2" /\ runs < AllocRuns /\ j = -1
    /\ mLen' = 0 /\ mBuckets' = makemap(size)
    /\ mallocs' = mallocs + 1
    /\ j' = 0
    /\ UNCHANGED <<notMapVars, tpiPc, size, runs, alloc1, alloc2, tpiFailed>>

\* one iteration of either closure: m[i] = "value"
ClosureInsert ==
    /\ tpiPc \in {"run1", "run2"} /\ j >= 0 /\ j < size
    /\ LET r == mapassign([len |-> mLen, buckets |-> mBuckets]) IN
        /\ mLen' = r.len
        /\ mBuckets' = r.buckets
        /\ mallocs' = IF r.grew THEN mallocs + 1 ELSE mallocs
    /\ j' = j + 1
    /\ UNCHANGED <<notMapVars, tpiPc, size, runs, alloc1, alloc2, tpiFailed>>

\* the closure returns; AllocsPerRun has one more run
ClosureEnd ==
    /\ tpiPc \in {"run1", "run2"} /\ j >= 0 /\ ~(j < size)
    /\ runs' = runs + 1
    /\ j' = -1
    /\ UNCHANGED <<notMapVars, tpiPc, size, mLen, mBuckets, mallocs,
                   alloc1, alloc2, tpiFailed>>

\* alloc1 := testing.AllocsPerRun(...): the average over the runs
AllocsPerRun1Return ==
    /\ tpiPc = "run1" /\ runs = AllocRuns /\ j = -1
    /\ alloc1' = mallocs \div AllocRuns
    /\ mallocs' = 0 /\ runs' = 0
    /\ tpiPc' = "run2"
    /\ UNCHANGED <<notMapVars, size, j, mLen, mBuckets, alloc2, tpiFailed>>

\* alloc2 := testing.AllocsPerRun(...)
AllocsPerRun2Return ==
    /\ tpiPc = "run2" /\ runs = AllocRuns /\ j = -1
    /\ alloc2' = mallocs \div AllocRuns
    /\ mallocs' = 0 /\ runs' = 0
    /\ tpiPc' = "check"
    /\ UNCHANGED <<notMapVars, size, j, mLen, mBuckets, alloc1, tpiFailed>>

\* if alloc2 >= alloc1 { t.Error(...) }
PreallocationImpactCheck ==
    /\ tpiPc = "check"
    /\ tpiFailed' = (alloc2 >= alloc1)
    /\ tpiPc' = "done"
    /\ UNCHANGED <<notMapVars, size, runs, j, mLen, mBuckets, mallocs,
                   alloc1, alloc2>>

NextMap ==
    \/ Closure1Begin \/ Closure2Begin \/ ClosureInsert \/ ClosureEnd
    \/ AllocsPerRun1Return \/ AllocsPerRun2Return \/ PreallocationImpactCheck

SpecMap == InitMap /\ [][NextMap]_vars

(***************************************************************************)
(* Arithmetic of the cost projections                                      *)
(*                                                                         *)
(* A figure is the exact value m * 2^e2 * 5^e5 with m prime to 10 (or 0):  *)
(* the decimal constants of the code (3.75, 0.0416) and its divisions by   *)
(* 1024 and by 1_000_000 are exact in this form.                           *)
(***************************************************************************)
RECURSIVE Norm(_, _, _)
Norm(m, e2, e5) ==
    IF m = 0 THEN [m |-> 0, e2 |-> 0, e5 |-> 0]
    ELSE IF m % 2 = 0 THEN Norm(m \div 2, e2 + 1, e5)
    ELSE IF m % 5 = 0 THEN Norm(m \div 5, e2, e5 + 1)
    ELSE [m |-> m, e2 |-> e2, e5 |-> e5]

\* float64(n)
Num(n) == Norm(n, 0, 0)

\* The decimal literal n * 10^-k, e.g. 3.75 = Dec(375, 2).
Dec(n, k) == Norm(n, 0 - k, 0 - k)

RECURSIVE Pow(_, _)
Pow(b, e) == IF e = 0 THEN 1 ELSE b * Pow(b, e - 1)

Min(a, b) == IF a <= b THEN a ELSE b

\* a * b
Mul(a, b) == Norm(a.m * b.m, a.e2 + b.e2, a.e5 + b.e5)

\* a / b, for the divisors of the code: b.m divides a.m
Div(a, b) == Norm(a.m \div b.m, a.e2 - b.e2, a.e5 - b.e5)

\* a - b
Sub(a, b) ==
    LET e2 == Min(a.e2, b.e2)
        e5 == Min(a.e5, b.e5)
    IN Norm(a.m * Pow(2, a.e2 - e2) * Pow(5, a.e5 - e5)
              - b.m * Pow(2, b.e2 - e2) * Pow(5, b.e5 - e5), e2, e5)

RECURSIVE LongDiv(_, _, _)
\* Quotient and remainder of n * 10^k by d, digit by digit (n >= 0, d > 0).
LongDiv(n, d, k) ==
    IF k = 0 THEN [q |-> n \div d, r |-> n % d]
    ELSE LET p == LongDiv(n, d, k - 1)
         IN [q |-> p.q * 10 + (p.r * 10) \div d, r |-> (p.r * 10) % d]

\* fmt's "%.kf" of n / d, as an integer number of 10^-k units.
FixedAbs(n, d, k) == (LongDiv(n, d, k + 1).q + 5) \div 10

Fixed(n, d, k) == IF n >= 0 THEN FixedAbs(n, d, k) ELSE 0 - FixedAbs(0 - n, d, k)

\* f with f[k] = v
Put(f, k, v) == [x \in DOMAIN f \cup {k} |-> IF x = k THEN v ELSE f[x]]

Has(f, k) == k \in DOMAIN f

\* f overridden by g
Merge(f, g) == [x \in DOMAIN f \cup DOMAIN g |-> IF x \in DOMAIN g THEN g[x] ELSE f[x]]

\* One entry of the log of main's calls: callee, arguments, returned values.
Call(f, a, r) == [fn |-> f, args |-> a, rets |-> r]

(***************************************************************************)
(* Day 1: main                                                             *)
(***************************************************************************)
\* The count main passes to benchmarkBadUser and benchmarkGoodUser.
Day1Users == 1000000

\* The divisor of the reported megabytes: 1024 * 1024.
MB == 1048576

\* Elapsed times a timer can report, in nanoseconds.
Durations == 1..MaxNs

\* The record counts of the scaling projections.
userCounts == <<1000000, 10000000, 100000000, 1000000000>>

\* benchmarkBadUser / benchmarkGoodUser: users is pre-sized and receives count
\* appends, so len(users) = count; totalMemory = Sizeof * len(users).
benchmarkUserMemory(fields, n) == Sizeof(fields) * n

\* fmt.Printf("%.2f MB", float64(bytes)/(1024*1024)), in hundredths
PrintMB(bytes) == Fixed(bytes, MB, 2)

\* "%.1f%%" of float64(a - b) / float64(a) * 100, in tenths
PrintPercent(a, b) == Fixed((a - b) * 100, a, 1)

\* The scaling loop of calculateCostImpact (Day 1): users -> scaled savings.
Day1Scaling(monthlySavings) ==
    [k \in 1..Len(userCounts) |->
        [users |-> userCounts[k],
         savings |-> Div(Mul(monthlySavings, Num(userCounts[k])), Num(1000000))]]

\* The figures calculateCostImpact (Day 1) prints.
Day1Projection(beforeMem, afterMem) ==
    LET memorySavedMB == Div(Num(beforeMem - afterMem), Num(1024 * 1024))
        costPerGBMonth == Div(Dec(300, 1), Dec(80, 1))
        monthlySavings == Mul(Div(memorySavedMB, Num(1024)), costPerGBMonth)
    IN [monthly |-> monthlySavings,
        annual |-> Mul(monthlySavings, Num(12)),
        scaling |-> Day1Scaling(monthlySavings)]

InitDriver ==
    /\ LayoutIdle /\ GrowthIdle /\ MapIdle /\ CallIdle /\ MeasIdle /\ RecIdle
    /\ day \in {1, 2, 3}
    /\ dpc = "main" /\ calls = <<>> /\ meas = <<>> /\ out = <<>>

\* STRUCT SIZES ANALYSIS: the two sizes and the savings per user
Day1_StructSizes ==
    /\ day = 1 /\ dpc = "main"
    /\ out' = Put(Put(Put(Put(out,
          "badSize", Sizeof(BadUser)),
          "goodSize", Sizeof(GoodUser)),
          "savingsPerUser", Sizeof(BadUser) - Sizeof(GoodUser)),
          "savingsPercent", PrintPercent(Sizeof(BadUser), Sizeof(GoodUser)))
    /\ dpc' = "sizes"
    /\ UNCHANGED <<notDriverVars, day, calls, meas>>

\* badTime, badMemory := benchmarkBadUser(1_000_000) and its two prints
Day1_benchmarkBadUser ==
    /\ day = 1 /\ dpc = "sizes"
    /\ \E t \in Durations :
        LET mem == benchmarkUserMemory(BadUser, Day1Users) IN
        /\ meas' = Put(Put(meas, "badTime", t), "badMemory", mem)
        /\ out' = Put(out, "badMB", PrintMB(mem))
        /\ calls' = Append(calls, Call("benchmarkBadUser", <<Day1Users>>, <<t, mem>>))
    /\ dpc' = "benchmarkBadUser"
    /\ UNCHANGED <<notDriverVars, day>>

Day1_explainMemoryLayout ==
    /\ day = 1 /\ dpc = "benchmarkBadUser"
    /\ calls' = Append(calls, Call("explainMemoryLayout", <<>>, <<>>))
    /\ dpc' = "explainMemoryLayout"
    /\ UNCHANGED <<notDriverVars, day, meas, out>>

\* goodTime, goodMemory := benchmarkGoodUser(1_000_000) and its two prints
Day1_benchmarkGoodUser ==
    /\ day = 1 /\ dpc = "explainMemoryLayout"
    /\ \E t \in Durations :
        LET mem == benchmarkUserMemory(GoodUser, Day1Users) IN
        /\ meas' = Put(Put(meas, "goodTime", t), "goodMemory", mem)
        /\ out' = Put(out, "goodMB", PrintMB(mem))
        /\ calls' = Append(calls, Call("benchmarkGoodUser", <<Day1Users>>, <<t, mem>>))
    /\ dpc' = "benchmarkGoodUser"
    /\ UNCHANGED <<notDriverVars, day>>

\* RESULTS COMPARISON: the improvement percentages ("%.1f", in tenths) and
\* the memory saved ("%.2f" MB, in hundredths)
Day1_Results ==
    /\ day = 1 /\ dpc = "benchmarkGoodUser"
    /\ out' = Put(Put(Put(out,
          "timeImprovement", PrintPercent(meas["badTime"], meas["goodTime"])),
          "memoryImprovement", PrintPercent(meas["badMemory"], meas["goodMemory"])),
          "savedMB", PrintMB(meas["badMemory"] - meas["goodMemory"]))
    /\ dpc' = "results"
    /\ UNCHANGED <<notDriverVars, day, calls, meas>>

\* calculateCostImpact(badMemory, goodMemory)
Day1_calculateCostImpact ==
    /\ day = 1 /\ dpc = "results"
    /\ out' = Merge(out, Day1Projection(meas["badMemory"], meas["goodMemory"]))
    /\ calls' = Append(calls, Call("calculateCostImpact",
                              <<meas["badMemory"], meas["goodMemory"]>>, <<>>))
    /\ dpc' = "done"
    /\ UNCHANGED <<notDriverVars, day, meas>>

(***************************************************************************)
(* Day 2: main                                                             *)
(***************************************************************************)
\* The count main passes to the three benchmark functions.
Day2Count == 1000000

\* The allocations value a benchmark function returns for count n: the naive
\* one increments it once per iteration, the other two set it to 1.
returnedAllocations(f, n) == IF f = "benchmarkNaiveAppend" THEN n ELSE 1

\* A variant of Day2Projection: the month has 31 days.
Day2ProjectionLongMonth(t1, t2, a1, a2) ==
    LET timeSavedNs == t1 - t2
        requestsPerDay == Mul(Mul(Num(100), Num(3600)), Num(24))
        awsCostPerVCPUHour == Dec(416, 4)
        cpuSecondsSavedPerRequest == Div(Num(timeSavedNs), Num(1000000000))
        cpuHoursSavedPerDay == Div(Mul(cpuSecondsSavedPerRequest, requestsPerDay), Num(3600))
        dailySavings == Mul(cpuHoursSavedPerDay, awsCostPerVCPUHour)
        monthlySavings == Mul(dailySavings, Num(31))
    IN [timeSavedPercent |-> PrintPercent(t1, t2),
        allocSavedPercent |-> PrintPercent(a1, a2),
        msSavedPerRequest |-> Div(Num(timeSavedNs), Num(1000000)),
        cpuHoursSavedPerDay |-> cpuHoursSavedPerDay,
        daily |-> dailySavings,
        monthly |-> monthlySavings,
        annual |-> Mul(monthlySavings, Num(12))]

\* The figures calculateCostImpact (Day 2) prints.
Day2Projection(t1, t2, a1, a2) ==
    LET timeSavedNs == t1 - t2
        requestsPerDay == Mul(Mul(Num(100), Num(3600)), Num(24))
        awsCostPerVCPUHour == Dec(416, 4)
        cpuSecondsSavedPerRequest == Div(Num(timeSavedNs), Num(1000000000))
        cpuHoursSavedPerDay == Div(Mul(cpuSecondsSavedPerRequest, requestsPerDay), Num(3600))
        dailySavings == Mul(cpuHoursSavedPerDay, awsCostPerVCPUHour)
        monthlySavings == Mul(dailySavings, Num(30))
    IN [timeSavedPercent |-> PrintPercent(t1, t2),
        allocSavedPercent |-> PrintPercent(a1, a2),
        msSavedPerRequest |-> Div(Num(timeSavedNs), Num(1000000)),
        cpuHoursSavedPerDay |-> cpuHoursSavedPerDay,
        daily |-> dailySavings,
        monthly |-> monthlySavings,
        annual |-> Mul(monthlySavings, Num(12))]

Day2_demoSliceGrowthProblem ==
    /\ day = 2 /\ dpc = "main"
    /\ calls' = Append(calls, Call("demoSliceGrowthProblem", <<>>, <<>>))
    /\ dpc' = "demoSliceGrowthProblem"
    /\ UNCHANGED <<notDriverVars, day, meas, out>>

\* t1, m1 := benchmarkNaiveAppend(1_000_000)
Day2_benchmarkNaiveAppend ==
    /\ day = 2 /\ dpc = "demoSliceGrowthProblem"
    /\ \E t \in Durations :
        LET a == returnedAllocations("benchmarkNaiveAppend", Day2Count) IN
        /\ meas' = Put(Put(meas, "t1", t), "m1", a)
        /\ calls' = Append(calls, Call("benchmarkNaiveAppend", <<Day2Count>>, <<t, a>>))
    /\ dpc' = "benchmarkNaiveAppend"
    /\ UNCHANGED <<notDriverVars, day, out>>

\* t2, m2 := benchmarkWithMake(1_000_000), then the improvement over t1, m1
Day2_benchmarkWithMake ==
    /\ day = 2 /\ dpc = "benchmarkNaiveAppend"
    /\ \E t \in Durations :
        LET a == returnedAllocations("benchmarkWithMake", Day2Count) IN
        /\ meas' = Put(Put(meas, "t2", t), "m2", a)
        /\ calls' = Append(calls, Call("benchmarkWithMake", <<Day2Count>>, <<t, a>>))
        /\ out' = Put(Put(out, "faster2", PrintPercent(meas["t1"], t)),
                      "fewer2", meas["m1"] - a)
    /\ dpc' = "benchmarkWithMake"
    /\ UNCHANGED <<notDriverVars, day>>

\* t3, m3 := benchmarkFixedArray(1_000_000), then the improvement over t1, m1
Day2_benchmarkFixedArray ==
    /\ day = 2 /\ dpc = "benchmarkWithMake"
    /\ \E t \in Durations :
        LET a == returnedAllocations("benchmarkFixedArray", Day2Count) IN
        /\ meas' = Put(Put(meas, "t3", t), "m3", a)
        /\ calls' = Append(calls, Call("benchmarkFixedArray", <<Day2Count>>, <<t, a>>))
        /\ out' = Put(Put(out, "faster3", PrintPercent(meas["t1"], t)),
                      "fewer3", meas["m1"] - a)
    /\ dpc' = "benchmarkFixedArray"
    /\ UNCHANGED <<notDriverVars, day>>

\* capacities := []int{10, 100, 1000, 10000, 100000}
capacities == <<10, 100, 1000, 10000, 100000>>

\* One row of explainSliceInternals's table: n, cap, reallocs and
\* float64(cap-n)/float64(cap)*100 under %5.1f, in tenths of a percent.
explainSliceInternalsRow(n) ==
    LET g == calculateGrowthOf(n)
    IN [target |-> n, cap |-> g.finalCap, reallocs |-> g.reallocs,
        wastePercent |-> Fixed((g.finalCap - n) * 100, g.finalCap, 1)]

\* for _, n := range capacities { cap, reallocs, waste := calculateGrowth(n); Printf }
Day2_explainSliceInternals ==
    /\ day = 2 /\ dpc = "benchmarkFixedArray"
    /\ calls' = Append(calls, Call("explainSliceInternals", <<>>, <<>>))
    /\ out' = Put(out, "growthTable",
                  [k \in 1..Len(capacities) |-> explainSliceInternalsRow(capacities[k])])
    /\ dpc' = "explainSliceInternals"
    /\ UNCHANGED <<notDriverVars, day, meas>>

Day2_demoUserProcessing ==
    /\ day = 2 /\ dpc = "explainSliceInternals"
    /\ calls' = Append(calls, Call("demoUserProcessing", <<>>, <<>>))
    /\ dpc' = "demoUserProcessing"
    /\ UNCHANGED <<notDriverVars, day, meas, out>>

\* A variant of Day2_calculateCostImpact: main passes the fixed-array results.
Day2_calculateCostImpactThird ==
    /\ day = 2 /\ dpc = "demoUserProcessing"
    /\ out' = Merge(out, Day2Projection(meas["t1"], meas["t3"], meas["m1"], meas["m3"]))
    /\ calls' = Append(calls, Call("calculateCostImpact",
                              <<meas["t1"], meas["t3"], meas["m1"], meas["m3"]>>, <<>>))
    /\ dpc' = "done"
    /\ UNCHANGED <<notDriverVars, day, meas>>

\* calculateCostImpact(t1, t2, m1, m2)
Day2_calculateCostImpact ==
    /\ day = 2 /\ dpc = "demoUserProcessing"
    /\ out' = Merge(out, Day2Projection(meas["t1"], meas["t2"], meas["m1"], meas["m2"]))
    /\ calls' = Append(calls, Call("calculateCostImpact",
                              <<meas["t1"], meas["t2"], meas["m1"], meas["m2"]>>, <<>>))
    /\ dpc' = "done"
    /\ UNCHANGED <<notDriverVars, day, meas>>

(***************************************************************************)
(* Day 3: main                                                             *)
(***************************************************************************)
\* Byte totals a pair of MemStats snapshots can differ by.
ByteDeltas == 1..MaxBytes

\* uint64 a - b: below zero the result wraps to 2^64 - (b - a).
SubUint64(a, b) == IF a >= b THEN [wrapped |-> FALSE, val |-> a - b]
                   ELSE [wrapped |-> TRUE, val |-> b - a]

\* A variant of Day3Projection: a gigabyte of 1000 * 1000 * 1000 bytes.
Day3ProjectionDecimalGB ==
    LET mapEntryOverhead == Num(50)
        sliceEntryOverhead == Num(16)
        entries == Num(1000000)
        awsCostPerGBMonth == Dec(375, 2)
        mapMemoryGB == Div(Mul(entries, mapEntryOverhead), Num(1000 * 1000 * 1000))
        mapCost == Mul(mapMemoryGB, awsCostPerGBMonth)
        sliceMemoryGB == Div(Mul(entries, sliceEntryOverhead), Num(1000 * 1000 * 1000))
        sliceCost == Mul(sliceMemoryGB, awsCostPerGBMonth)
        savingsCost == Sub(mapCost, sliceCost)
    IN [mapMemoryGB |-> mapMemoryGB, sliceMemoryGB |-> sliceMemoryGB,
        savingsGB |-> Sub(mapMemoryGB, sliceMemoryGB),
        mapCost |-> mapCost, sliceCost |-> sliceCost,
        monthly |-> savingsCost,
        annual |-> Mul(savingsCost, Num(12))]

\* The figures calculateMapCostImpact prints.
Day3Projection ==
    LET mapEntryOverhead == Num(50)
        sliceEntryOverhead == Num(16)
        entries == Num(1000000)
        awsCostPerGBMonth == Dec(375, 2)
        mapMemoryGB == Div(Mul(entries, mapEntryOverhead), Num(1024 * 1024 * 1024))
        mapCost == Mul(mapMemoryGB, awsCostPerGBMonth)
        sliceMemoryGB == Div(Mul(entries, sliceEntryOverhead), Num(1024 * 1024 * 1024))
        sliceCost == Mul(sliceMemoryGB, awsCostPerGBMonth)
        savingsCost == Sub(mapCost, sliceCost)
    IN [mapMemoryGB |-> mapMemoryGB, sliceMemoryGB |-> sliceMemoryGB,
        savingsGB |-> Sub(mapMemoryGB, sliceMemoryGB),
        mapCost |-> mapCost, sliceCost |-> sliceCost,
        monthly |-> savingsCost,
        annual |-> Mul(savingsCost, Num(12))]

\* revealMapOverhead, which ends by calling measureMapMemory: the two
\* differences of TotalAlloc it reports
Day3_revealMapOverhead ==
    /\ day = 3 /\ dpc = "main"
    /\ \E mapMemory \in ByteDeltas, sliceMemory \in ByteDeltas :
        /\ meas' = Put(Put(meas, "mapMemory", mapMemory), "sliceMemory", sliceMemory)
        /\ out' = Put(out, "mapVsSlice", SubUint64(mapMemory, sliceMemory))
    /\ calls' = Append(calls, Call("revealMapOverhead", <<>>, <<>>))
    /\ dpc' = "revealMapOverhead"
    /\ UNCHANGED <<notDriverVars, day>>

\* runComparisonBenchmarks: three timed loops
Day3_runComparisonBenchmarks ==
    /\ day = 3 /\ dpc = "revealMapOverhead"
    /\ \E mapTime \in Durations, sliceTime \in Durations, arrayTime \in Durations :
        meas' = Put(Put(Put(meas, "mapTime", mapTime), "sliceTime", sliceTime),
                    "arrayTime", arrayTime)
    /\ calls' = Append(calls, Call("runComparisonBenchmarks", <<>>, <<>>))
    /\ dpc' = "runComparisonBenchmarks"
    /\ UNCHANGED <<notDriverVars, day, out>>

Day3_explainMapInternals ==
    /\ day = 3 /\ dpc = "runComparisonBenchmarks"
    /\ calls' = Append(calls, Call("explainMapInternals", <<>>, <<>>))
    /\ dpc' = "explainMapInternals"
    /\ UNCHANGED <<notDriverVars, day, meas, out>>

Day3_analyzeRealWorldScenarios ==
    /\ day = 3 /\ dpc = "explainMapInternals"
    /\ calls' = Append(calls, Call("analyzeRealWorldScenarios", <<>>, <<>>))
    /\ dpc' = "analyzeRealWorldScenarios"
    /\ UNCHANGED <<notDriverVars, day, meas, out>>

Day3_shareOptimizationStrategies ==
    /\ day = 3 /\ dpc = "analyzeRealWorldScenarios"
    /\ calls' = Append(calls, Call("shareOptimizationStrategies", <<>>, <<>>))
    /\ dpc' = "shareOptimizationStrategies"
    /\ UNCHANGED <<notDriverVars, day, meas, out>>

\* calculateMapCostImpact()
Day3_calculateMapCostImpact ==
    /\ day = 3 /\ dpc = "shareOptimizationStrategies"
    /\ out' = Merge(out, Day3Projection)
    /\ calls' = Append(calls, Call("calculateMapCostImpact", <<>>, <<>>))
    /\ dpc' = "done"
    /\ UNCHANGED <<notDriverVars, day, meas>>

NextDriver ==
    \/ Day1_StructSizes
    \/ Day1_benchmarkBadUser
    \/ Day1_explainMemoryLayout
    \/ Day1_benchmarkGoodUser
    \/ Day1_Results
    \/ Day1_calculateCostImpact
    \/ Day2_demoSliceGrowthProblem
    \/ Day2_benchmarkNaiveAppend
    \/ Day2_benchmarkWithMake
    \/ Day2_benchmarkFixedArray
    \/ Day2_explainSliceInternals
    \/ Day2_demoUserProcessing
    \/ Day2_calculateCostImpact
    \/ Day3_revealMapOverhead
    \/ Day3_runComparisonBenchmarks
    \/ Day3_explainMapInternals
    \/ Day3_analyzeRealWorldScenarios
    \/ Day3_shareOptimizationStrategies
    \/ Day3_calculateMapCostImpact

SpecDriver == InitDriver /\ [][NextDriver]_vars

(***************************************************************************)
(* Sequences of measurement calls: the functions of Day 1's and Day 2's    *)
(* main, and the loop bodies of their benchmark functions, which run the   *)
(* same loops and then store the container in a module-level variable      *)
(***************************************************************************)
\* The size the Day 1 benchmark loops build.
HelperUsers == 1000

\* The size Benchmark_NaiveAppend_100 passes to its helper.
HelperSize == 100

UserFns == {"benchmarkBadUser", "benchmarkGoodUser"}

UserFields(f) == IF f = "benchmarkBadUser" THEN BadUser ELSE GoodUser

\* The measurement functions of a day's package.
CallFns(p) == IF p = 1 THEN UserFns ELSE Fns

\* Whether call mode h exists for f: calculateGrowth has no benchmark loop.
Modes(f) == IF f = "calculateGrowth" THEN {FALSE} ELSE BOOLEAN

\* The counts function f is called with.
Inputs(f, h) ==
    IF h THEN (IF f \in UserFns THEN {HelperUsers} ELSE {HelperSize})
    ELSE IF f = "calculateGrowth" THEN (0 - NegTargets)..MaxRepeatCount
    ELSE 0..MaxRepeatCount

\* The module-level variable a benchmark loop of f stores its container in.
Sink(f) ==
    IF f = "benchmarkBadUser" THEN "globalBadUsers"
    ELSE IF f = "benchmarkGoodUser" THEN "globalGoodUsers"
    ELSE "globalIntSlice"

InitCalls ==
    /\ LayoutIdle /\ MapIdle /\ DriverIdle /\ MeasIdle /\ RecIdle
    /\ pkg \in {1, 2}
    /\ fn \in CallFns(pkg)
    /\ helper \in Modes(fn)
    /\ count \in Inputs(fn, helper)
    /\ callNo = 1
    /\ results = {}
    /\ globals = ZeroGlobals
    /\ pc = "call"
    /\ i = 0 /\ dataLen = 0 /\ dataCap = 0 /\ allocations = 0
    /\ allocCount = 0 /\ copied = 0 /\ cap = 0 /\ reallocs = 0 /\ waste = 0
    /\ totalMemory = 0

\* users := make([]T, 0, count)
benchmarkUserBegin ==
    /\ fn \in UserFns /\ pc = "call"
    /\ dataLen' = makeCap(count).len /\ dataCap' = makeCap(count).cap
    /\ i' = 0
    /\ pc' = "loop"
    /\ UNCHANGED <<layoutVars, extVars, fn, count, allocations, allocCount, copied,
                   cap, reallocs, waste>>

\* users = append(users, T{...})
benchmarkUserIter ==
    /\ fn \in UserFns /\ pc = "loop" /\ i < count
    /\ LET r == append(data) IN
        /\ dataLen' = r.len
        /\ dataCap' = r.cap
        /\ copied' = copied + r.copied
        /\ allocCount' = IF r.cap > dataCap THEN allocCount + 1 ELSE allocCount
    /\ i' = i + 1
    /\ UNCHANGED <<layoutVars, extVars, fn, pc, count, allocations, cap, reallocs, waste>>

\* totalMemory := unsafe.Sizeof(T{}) * uintptr(len(users)); the benchmark
\* loop has no such statement
benchmarkUserReturn ==
    /\ fn \in UserFns /\ pc = "loop" /\ ~(i < count)
    /\ totalMemory' = IF helper THEN totalMemory ELSE Sizeof(UserFields(fn)) * dataLen
    /\ pc' = "done"
    /\ UNCHANGED <<notCallVars, fn, count, i, dataLen, dataCap, allocations, allocCount,
                   copied, cap, reallocs, waste, pkg, helper, callNo, results, globals>>

\* A variant of HelperStore: only the length is stored.
HelperStoreLenOnly ==
    /\ helper /\ pc = "done"
    /\ globals' = [globals EXCEPT !.globalInt = dataLen]
    /\ pc' = "stored"
    /\ UNCHANGED <<notCallVars, fn, count, i, dataLen, dataCap, allocations, allocCount,
                   copied, cap, reallocs, waste, pkg, helper, callNo, results, totalMemory>>

\* The end of a benchmark loop's body: globalIntSlice = data (globalBadUsers =
\* users, globalGoodUsers = users); globalInt = len(data)
HelperStore ==
    /\ helper /\ pc = "done"
    /\ globals' = [globals EXCEPT
                     ![Sink(fn)] = [id |-> callNo, len |-> dataLen, cap |-> dataCap],
                     !.globalInt = dataLen]
    /\ pc' = "stored"
    /\ UNCHANGED <<notCallVars, fn, count, i, dataLen, dataCap, allocations, allocCount,
                   copied, cap, reallocs, waste, pkg, helper, callNo, results, totalMemory>>

\* What a call leaves to its caller: the returned values of the function, or
\* of a benchmark loop's body the container it built, and the allocations made.
Result ==
    [allocations |-> IF helper THEN 0 ELSE allocations,
     allocCount |-> allocCount,
     len |-> dataLen, cap |-> dataCap,
     totalMemory |-> totalMemory,
     finalCap |-> cap, reallocs |-> reallocs, waste |-> waste]

\* The call returns after some elapsed time.
Returned ==
    /\ pkg # 0
    /\ \/ ~helper /\ pc = "done"
       \/ helper /\ pc = "stored"
    /\ \E t \in Durations :
        results' = results \cup
            {[fn |-> fn, helper |-> helper, count |-> count,
              time |-> t, result |-> Result]}
    /\ pc' = "returned"
    /\ UNCHANGED <<notCallVars, fn, count, i, dataLen, dataCap, allocations, allocCount,
                   copied, cap, reallocs, waste, pkg, helper, callNo, globals, totalMemory>>

\* The next call: a new frame, with fresh locals.
CallAgain ==
    /\ pc = "returned" /\ callNo < MaxCalls
    /\ \E f \in CallFns(pkg) : \E h \in Modes(f) : \E c \in Inputs(f, h) :
        /\ fn' = f /\ helper' = h /\ count' = c
    /\ callNo' = callNo + 1
    /\ pc' = "call"
    /\ i' = 0 /\ dataLen' = 0 /\ dataCap' = 0 /\ allocations' = 0
    /\ allocCount' = 0 /\ copied' = 0 /\ cap' = 0 /\ reallocs' = 0 /\ waste' = 0
    /\ totalMemory' = 0
    /\ UNCHANGED <<notCallVars, pkg, results, globals>>

NextCalls ==
    \/ NaiveAppendBegin \/ NaiveAppendIter \/ NaiveAppendReturn
    \/ WithMakeBegin \/ WithMakeIter \/ WithMakeReturn
    \/ FixedArrayBegin \/ FixedArrayIter \/ FixedArrayReturn
    \/ calculateGrowthBegin \/ calculateGrowthIter \/ calculateGrowthReturn
    \/ benchmarkUserBegin \/ benchmarkUserIter \/ benchmarkUserReturn
    \/ HelperStore
    \/ Returned
    \/ CallAgain

SpecCalls == InitCalls /\ [][NextCalls]_vars

(***************************************************************************)
(* Memory measurements: measureMapMemory (Day 3), benchmarkBefore,         *)
(* benchmarkAfter and TestMemoryUsage (template)                           *)
(***************************************************************************)
MeasureFns == {"measureMapMemory", "benchmarkBefore", "benchmarkAfter", "TestMemoryUsage"}

\* The statements of a measuring function that touch the memory statistics,
\* in program order: runtime.GC(), runtime.ReadMemStats, the measured
\* operation, the print of a TotalAlloc difference ("diff"), of the absolute
\* Alloc ("abs"), of mapMemory-sliceMemory ("vs").
Steps(f) ==
    IF f = "measureMapMemory"
    THEN <<"GC", "ReadMemStats", "op", "ReadMemStats", "diff",
           "GC", "ReadMemStats", "op", "ReadMemStats", "diff", "vs">>
    ELSE IF f = "TestMemoryUsage"
    THEN <<"GC", "ReadMemStats", "op", "ReadMemStats", "diff">>
    ELSE <<"op", "ReadMemStats", "abs">>

\* Bytes the measured operation allocates: the template's operation is a
\* TODO comment and allocates nothing.
OpBytes(f) == IF f = "measureMapMemory" THEN ByteDeltas ELSE {0}

\* The statement the measuring function executes next ("end": none).
NextStep == IF mpc < Len(Steps(mfn)) THEN Steps(mfn)[mpc + 1] ELSE "end"

InitMeasure ==
    /\ LayoutIdle /\ GrowthIdle /\ MapIdle /\ DriverIdle /\ CallIdle /\ RecIdle
    /\ mfn \in MeasureFns
    /\ mpc = 0
    /\ trace = <<>>
    /\ \E total \in 0..MaxBytes : \E live \in 0..total :
       \E n \in (IF total = 0 THEN {0} ELSE 1..total) :
            heap = [TotalAlloc |-> total, Alloc |-> live, Mallocs |-> n]
    /\ snap = <<>>
    /\ report = <<>>

\* runtime.GC(): frees some of the live bytes
runtimeGC ==
    /\ NextStep = "GC"
    /\ \E live \in 0..heap.Alloc : heap' = [heap EXCEPT !.Alloc = live]
    /\ trace' = Append(trace, "GC")
    /\ mpc' = mpc + 1
    /\ UNCHANGED <<notMeasVars, mfn, snap, report>>

\* runtime.ReadMemStats(&m)
runtimeReadMemStats ==
    /\ NextStep = "ReadMemStats"
    /\ snap' = Append(snap, heap)
    /\ trace' = Append(trace, "ReadMemStats")
    /\ mpc' = mpc + 1
    /\ UNCHANGED <<notMeasVars, mfn, heap, report>>

\* the measured operation
MeasuredOp ==
    /\ NextStep = "op"
    /\ \E d \in OpBytes(mfn) :
        heap' = [TotalAlloc |-> heap.TotalAlloc + d,
                 Alloc |-> heap.Alloc + d,
                 Mallocs |-> heap.Mallocs + (IF d > 0 THEN 1 ELSE 0)]
    /\ trace' = Append(trace, "op")
    /\ mpc' = mpc + 1
    /\ UNCHANGED <<notMeasVars, mfn, snap, report>>

\* mapMemory := m2.TotalAlloc - m1.TotalAlloc, printed
ReportDifference ==
    /\ NextStep = "diff"
    /\ report' = Append(report,
          [kind |-> "diff", wrapped |-> FALSE,
           val |-> snap[Len(snap)].TotalAlloc - snap[Len(snap) - 1].TotalAlloc])
    /\ trace' = Append(trace, "diff")
    /\ mpc' = mpc + 1
    /\ UNCHANGED <<notMeasVars, mfn, heap, snap>>

\* fmt.Printf("Memory allocated: %.2f MB\n", float64(m.Alloc)/1024/1024)
ReportAbsolute ==
    /\ NextStep = "abs"
    /\ report' = Append(report,
          [kind |-> "abs", wrapped |-> FALSE, val |-> snap[Len(snap)].Alloc])
    /\ trace' = Append(trace, "abs")
    /\ mpc' = mpc + 1
    /\ UNCHANGED <<notMeasVars, mfn, heap, snap>>

\* the print of mapMemory-sliceMemory
ReportMapVsSlice ==
    /\ NextStep = "vs"
    /\ LET d == SubUint64(report[1].val, report[2].val) IN
        report' = Append(report, [kind |-> "vs", wrapped |-> d.wrapped, val |-> d.val])
    /\ trace' = Append(trace, "vs")
    /\ mpc' = mpc + 1
    /\ UNCHANGED <<notMeasVars, mfn, heap, snap>>

NextMeasure ==
    \/ runtimeGC
    \/ runtimeReadMemStats
    \/ MeasuredOp
    \/ ReportDifference
    \/ ReportAbsolute
    \/ ReportMapVsSlice

SpecMeasure == InitMeasure /\ [][NextMeasure]_vars

(***************************************************************************)
(* Template: BenchmarkBeforeOptimization, BenchmarkAfterOptimization,      *)
(* TestOptimizationCorrectness                                             *)
(***************************************************************************)
TemplateFns ==
    {"BenchmarkBeforeOptimization", "BenchmarkAfterOptimization",
     "TestOptimizationCorrectness"}

\* The bound of the inner loop of BenchmarkBeforeOptimization.
TemplateLoop == 1000

InitTemplate ==
    /\ LayoutIdle /\ GrowthIdle /\ MapIdle /\ DriverIdle /\ CallIdle /\ MeasIdle
    /\ demo = DemoIdle /\ contents = ContentsIdle /\ search = SearchIdle
    /\ wide = WideIdle
    /\ \E f \in TemplateFns :
       \E n \in (IF f = "TestOptimizationCorrectness" THEN {0} ELSE 1..MaxBenchN) :
            template = [TemplateIdle EXCEPT !.fn = f, !.pc = "outer", !.N = n]

\* for i := 0; i < b.N; i++ { result := 0
BeforeIterBegin ==
    /\ template.fn = "BenchmarkBeforeOptimization"
    /\ template.pc = "outer" /\ template.i < template.N
    /\ template' = [template EXCEPT !.result = 0, !.j = 0, !.pc = "inner"]
    /\ UNCHANGED <<notRecVars, demo, contents, search, wide>>

\* for j := 0; j < 1000; j++ { result += j }
BeforeInner ==
    /\ template.fn = "BenchmarkBeforeOptimization"
    /\ template.pc = "inner" /\ template.j < TemplateLoop
    /\ template' = [template EXCEPT !.result = @ + template.j, !.j = @ + 1]
    /\ UNCHANGED <<notRecVars, demo, contents, search, wide>>

\* globalResult = result }
BeforeStore ==
    /\ template.fn = "BenchmarkBeforeOptimization"
    /\ template.pc = "inner" /\ ~(template.j < TemplateLoop)
    /\ template' = [template EXCEPT !.globalResult = template.result,
                                    !.i = @ + 1, !.pc = "outer"]
    /\ UNCHANGED <<notRecVars, demo, contents, search, wide>>

\* for i := 0; i < b.N; i++ { result := 0; globalResult = result }
AfterIter ==
    /\ template.fn = "BenchmarkAfterOptimization"
    /\ template.pc = "outer" /\ template.i < template.N
    /\ template' = [template EXCEPT !.result = 0, !.globalResult = 0, !.i = @ + 1]
    /\ UNCHANGED <<notRecVars, demo, contents, search, wide>>

BenchmarkReturn ==
    /\ template.fn \in {"BenchmarkBeforeOptimization", "BenchmarkAfterOptimization"}
    /\ template.pc = "outer" /\ ~(template.i < template.N)
    /\ template' = [template EXCEPT !.pc = "done"]
    /\ UNCHANGED <<notRecVars, demo, contents, search, wide>>

\* originalResult := "TODO: call original function"; optimizedResult :=
\* "TODO: call optimized function"; if they differ, t.Errorf
TestOptimizationCorrectness ==
    /\ template.fn = "TestOptimizationCorrectness" /\ template.pc = "outer"
    /\ LET originalResult == "TODO: call original function"
           optimizedResult == "TODO: call optimized function"
       IN template' = [template EXCEPT
                         !.originalResult = originalResult,
                         !.optimizedResult = optimizedResult,
                         !.errors = IF originalResult # optimizedResult THEN @ + 1 ELSE @,
                         !.pc = "done"]
    /\ UNCHANGED <<notRecVars, demo, contents, search, wide>>

NextTemplate ==
    \/ BeforeIterBegin
    \/ BeforeInner
    \/ BeforeStore
    \/ AfterIter
    \/ BenchmarkReturn
    \/ TestOptimizationCorrectness

SpecTemplate == InitTemplate /\ [][NextTemplate]_vars

(***************************************************************************)
(* Day 2: demoSliceGrowthProblem and Test_SliceGrowthPattern               *)
(***************************************************************************)
DemoFns == {"demoSliceGrowthProblem", "Test_SliceGrowthPattern"}

\* growthPattern := []int{1, 2, 3, 4, 5, 9, 17, 33}
growthPattern == <<1, 2, 3, 4, 5, 9, 17, 33>>

\* expectedGrowth of Test_SliceGrowthPattern, in the order it is ranged over
growthCases ==
    << [appends |-> 1, cap |-> 1], [appends |-> 2, cap |-> 2],
       [appends |-> 3, cap |-> 4], [appends |-> 5, cap |-> 8],
       [appends |-> 9, cap |-> 16], [appends |-> 17, cap |-> 32],
       [appends |-> 33, cap |-> 64], [appends |-> 1025, cap |-> 1280] >>

\* var s []int
InitDemo ==
    /\ LayoutIdle /\ GrowthIdle /\ MapIdle /\ DriverIdle /\ CallIdle /\ MeasIdle
    /\ contents = ContentsIdle /\ search = SearchIdle
    /\ template = TemplateIdle /\ wide = WideIdle
    /\ \E f \in DemoFns :
         demo = [DemoIdle EXCEPT !.fn = f, !.k = 1,
                                 !.pc = IF f = "demoSliceGrowthProblem"
                                        THEN "append" ELSE "case"]

\* for i := 0; i < n; i++ { s = append(s, i) }   (one iteration)
demoAppend ==
    /\ demo.fn = "demoSliceGrowthProblem" /\ demo.pc = "append"
    /\ demo.k <= Len(growthPattern)
    /\ demo.i < growthPattern[demo.k]
    /\ LET r == append([len |-> demo.len, cap |-> demo.cap])
       IN demo' = [demo EXCEPT !.len = r.len, !.cap = r.cap, !.i = @ + 1]
    /\ UNCHANGED <<notRecVars, contents, search, template, wide>>

\* fmt.Printf("After %3d appends: len=%2d, cap=%2d (waste: %2d slots)\n", ...)
\* and the next n of the range; s keeps its elements.
demoPrint ==
    /\ demo.fn = "demoSliceGrowthProblem" /\ demo.pc = "append"
    /\ demo.k <= Len(growthPattern)
    /\ ~(demo.i < growthPattern[demo.k])
    /\ demo' = [demo EXCEPT
                  !.lines = Append(@, [n |-> growthPattern[demo.k],
                                       len |-> demo.len, cap |-> demo.cap,
                                       waste |-> demo.cap - demo.len]),
                  !.k = @ + 1, !.i = 0]
    /\ UNCHANGED <<notRecVars, contents, search, template, wide>>

demoReturn ==
    /\ demo.fn = "demoSliceGrowthProblem" /\ demo.pc = "append"
    /\ demo.k > Len(growthPattern)
    /\ demo' = [demo EXCEPT !.pc = "done"]
    /\ UNCHANGED <<notRecVars, contents, search, template, wide>>

\* for _, expected := range expectedGrowth { s = nil
testGrowthReset ==
    /\ demo.fn = "Test_SliceGrowthPattern" /\ demo.pc = "case"
    /\ demo.k <= Len(growthCases)
    /\ demo' = [demo EXCEPT !.len = 0, !.cap = 0, !.i = 0, !.pc = "append"]
    /\ UNCHANGED <<notRecVars, contents, search, template, wide>>

\* for i := 0; i < expected.appends; i++ { s = append(s, i) }  (one iteration)
testGrowthAppend ==
    /\ demo.fn = "Test_SliceGrowthPattern" /\ demo.pc = "append"
    /\ demo.i < growthCases[demo.k].appends
    /\ LET r == append([len |-> demo.len, cap |-> demo.cap])
       IN demo' = [demo EXCEPT !.len = r.len, !.cap = r.cap, !.i = @ + 1]
    /\ UNCHANGED <<notRecVars, contents, search, template, wide>>

\* if cap(s) != expected.cap { t.Errorf(...) } else { t.Logf(...) }
testGrowthCheck ==
    /\ demo.fn = "Test_SliceGrowthPattern" /\ demo.pc = "append"
    /\ ~(demo.i < growthCases[demo.k].appends)
    /\ demo' = [demo EXCEPT
                  !.errors = IF demo.cap # growthCases[demo.k].cap THEN @ + 1 ELSE @,
                  !.lines = IF demo.cap # growthCases[demo.k].cap THEN @
                            ELSE Append(@, [n |-> growthCases[demo.k].appends,
                                            len |-> demo.len, cap |-> demo.cap,
                                            waste |-> demo.cap - demo.len]),
                  !.k = @ + 1, !.pc = "case"]
    /\ UNCHANGED <<notRecVars, contents, search, template, wide>>

testGrowthReturn ==
    /\ demo.fn = "Test_SliceGrowthPattern" /\ demo.pc = "case"
    /\ demo.k > Len(growthCases)
    /\ demo' = [demo EXCEPT !.pc = "done"]
    /\ UNCHANGED <<notRecVars, contents, search, template, wide>>

NextDemo ==
    \/ demoAppend \/ demoPrint \/ demoReturn
    \/ testGrowthReset \/ testGrowthAppend \/ testGrowthCheck \/ testGrowthReturn

SpecDemo == InitDemo /\ [][NextDemo]_vars

(***************************************************************************)
(* Day 2: calculateGrowth on Go's int (64 bits, two's complement)          *)
(*                                                                         *)
(* A word is four 16-bit limbs, least significant first; the arithmetic    *)
(* wraps modulo 2^64 as Go's does.                                         *)
(***************************************************************************)
Limb == 65536

\* A small non-negative integer as a word.
WOf(n) == <<n % Limb, (n \div Limb) % Limb, 0, 0>>

\* a + b
WAdd(a, b) ==
    LET s1 == a[1] + b[1]
        s2 == a[2] + b[2] + s1 \div Limb
        s3 == a[3] + b[3] + s2 \div Limb
        s4 == a[4] + b[4] + s3 \div Limb
    IN <<s1 % Limb, s2 % Limb, s3 % Limb, s4 % Limb>>

\* -a
WNegate(a) ==
    WAdd(<<Limb - 1 - a[1], Limb - 1 - a[2], Limb - 1 - a[3], Limb - 1 - a[4]>>, WOf(1))

\* a - b
WSub(a, b) == WAdd(a, WNegate(b))

\* a < 0
WNeg(a) == a[4] >= Limb \div 2

\* a < b, both read as unsigned
WLessU(a, b) ==
    \E k \in 1..4 : a[k] < b[k] /\ \A h \in (k + 1)..4 : a[h] = b[h]

\* a < b (signed)
WLess(a, b) == IF WNeg(a) # WNeg(b) THEN WNeg(a) ELSE WLessU(a, b)

\* a / 4 for a >= 0
WQuarterU(a) ==
    <<a[1] \div 4 + (a[2] % 4) * (Limb \div 4),
      a[2] \div 4 + (a[3] % 4) * (Limb \div 4),
      a[3] \div 4 + (a[4] % 4) * (Limb \div 4),
      a[4] \div 4>>

\* a / 4, truncated toward zero as Go's integer division is
WQuarter(a) == IF WNeg(a) THEN WNegate(WQuarterU(WNegate(a))) ELSE WQuarterU(a)

\* The largest capacity of the sequence 1, 2, 4, ..., 1024, 1280, 1600, ...
\* that an int holds: 8004081716634758290.
LastCap == <<44178, 61750, 13801, 28436>>

\* Arguments calculateGrowth is run with.
WideTargets ==
    {WNegate(WOf(2)), WNegate(WOf(1))}
    \cup {WOf(n) : n \in {0, 1, 2, 3, 1000, 1025, 100000}}
    \cup {LastCap, WAdd(LastCap, WOf(1))}

InitWide ==
    /\ LayoutIdle /\ GrowthIdle /\ MapIdle /\ DriverIdle /\ CallIdle /\ MeasIdle
    /\ demo = DemoIdle /\ contents = ContentsIdle /\ search = SearchIdle
    /\ template = TemplateIdle
    /\ \E t \in WideTargets :
         wide = [WideIdle EXCEPT !.pc = "call", !.target = t]

\* cap := 0; reallocs = 0
wideBegin ==
    /\ wide.pc = "call"
    /\ wide' = [wide EXCEPT !.cap = W0, !.reallocs = 0, !.pc = "loop"]
    /\ UNCHANGED <<notRecVars, demo, contents, search, template>>

\* one iteration of: for cap < target { oldCap := cap; ...; if oldCap > 0 { reallocs++ } }
wideIter ==
    /\ wide.pc = "loop" /\ WLess(wide.cap, wide.target)
    /\ wide' = [wide EXCEPT
                  !.oldCap = wide.cap,
                  !.cap = IF wide.cap = W0 THEN WOf(1)
                          ELSE IF WLess(wide.cap, WOf(DoublingThreshold))
                               THEN WAdd(wide.cap, wide.cap)
                          ELSE WAdd(wide.cap, WQuarter(wide.cap)),
                  !.reallocs = IF WLess(W0, wide.cap) THEN @ + 1 ELSE @]
    /\ UNCHANGED <<notRecVars, demo, contents, search, template>>

\* return cap, reallocs, cap - target
wideReturn ==
    /\ wide.pc = "loop" /\ ~WLess(wide.cap, wide.target)
    /\ wide' = [wide EXCEPT !.waste = WSub(wide.cap, wide.target), !.pc = "done"]
    /\ UNCHANGED <<notRecVars, demo, contents, search, template>>

NextWide == wideBegin \/ wideIter \/ wideReturn

\* The function runs to its return statement once called.
SpecWide == InitWide /\ [][NextWide]_vars /\ WF_vars(NextWide)

(***************************************************************************)
(* Day 2: the three strategies with the elements they store                *)
(***************************************************************************)
\* append(s, x) that replaces the backing array without copying into it.
appendToNoCopy(s, x) ==
    IF s.len = Len(s.array)
    THEN [len |-> s.len + 1,
          array |-> [k \in 1..growslice(Len(s.array)) |->
                        IF k = s.len + 1 THEN x ELSE 0]]
    ELSE [len |-> s.len + 1, array |-> [s.array EXCEPT ![s.len + 1] = x]]

\* append(s, x) on a slice [len, array] whose capacity is Len(array): a full
\* slice gets a new zeroed array of the grown capacity, the len elements
\* stored are copied into it, and x is stored behind them.
appendTo(s, x) ==
    IF s.len = Len(s.array)
    THEN [len |-> s.len + 1,
          array |-> [k \in 1..growslice(Len(s.array)) |->
                        IF k <= s.len THEN s.array[k]
                        ELSE IF k = s.len + 1 THEN x ELSE 0]]
    ELSE [len |-> s.len + 1, array |-> [s.array EXCEPT ![s.len + 1] = x]]

\* make([]int, n, c): c zeroed slots
makeArray(c) == [k \in 1..c |-> 0]

InitContents ==
    /\ LayoutIdle /\ GrowthIdle /\ MapIdle /\ DriverIdle /\ CallIdle /\ MeasIdle
    /\ demo = DemoIdle /\ search = SearchIdle
    /\ template = TemplateIdle /\ wide = WideIdle
    /\ \E f \in Fns \ {"calculateGrowth"} : \E n \in 0..MaxStored :
         contents = [ContentsIdle EXCEPT !.fn = f, !.pc = "call", !.count = n]

\* var data []int
ContentsNaiveBegin ==
    /\ contents.fn = "benchmarkNaiveAppend" /\ contents.pc = "call"
    /\ contents' = [contents EXCEPT !.len = 0, !.array = <<>>, !.i = 0, !.pc = "loop"]
    /\ UNCHANGED <<notRecVars, demo, search, template, wide>>

\* data := make([]int, 0, count)
ContentsMakeBegin ==
    /\ contents.fn = "benchmarkWithMake" /\ contents.pc = "call"
    /\ contents' = [contents EXCEPT !.len = makeCap(contents.count).len,
                                    !.array = makeArray(makeCap(contents.count).cap),
                                    !.i = 0, !.pc = "loop"]
    /\ UNCHANGED <<notRecVars, demo, search, template, wide>>

\* data := make([]int, count)
ContentsFixedBegin ==
    /\ contents.fn = "benchmarkFixedArray" /\ contents.pc = "call"
    /\ contents' = [contents EXCEPT !.len = makeLen(contents.count).len,
                                    !.array = makeArray(makeLen(contents.count).cap),
                                    !.i = 0, !.pc = "loop"]
    /\ UNCHANGED <<notRecVars, demo, search, template, wide>>

\* data = append(data, i)
ContentsAppend ==
    /\ contents.fn \in {"benchmarkNaiveAppend", "benchmarkWithMake"}
    /\ contents.pc = "loop" /\ contents.i < contents.count
    /\ LET r == appendTo([len |-> contents.len, array |-> contents.array], contents.i)
       IN contents' = [contents EXCEPT !.len = r.len, !.array = r.array, !.i = @ + 1]
    /\ UNCHANGED <<notRecVars, demo, search, template, wide>>

\* data[i] = i  (an index below len(data))
ContentsAssign ==
    /\ contents.fn = "benchmarkFixedArray"
    /\ contents.pc = "loop" /\ contents.i < contents.count
    /\ contents.i < contents.len
    /\ contents' = [contents EXCEPT !.array[contents.i + 1] = contents.i, !.i = @ + 1]
    /\ UNCHANGED <<notRecVars, demo, search, template, wide>>

ContentsReturn ==
    /\ contents.pc = "loop" /\ ~(contents.i < contents.count)
    /\ contents' = [contents EXCEPT !.pc = "done"]
    /\ UNCHANGED <<notRecVars, demo, search, template, wide>>

NextContents ==
    \/ ContentsNaiveBegin \/ ContentsMakeBegin \/ ContentsFixedBegin
    \/ ContentsAppend \/ ContentsAssign \/ ContentsReturn

SpecContents == InitContents /\ [][NextContents]_vars

(***************************************************************************)
(* Day 3: lookup benchmarks                                                *)
(***************************************************************************)
\* Entries the lookup benchmarks prepare.
LookupEntries == 1000

\* Benchmark_MapLookup: m[i] = "value" for i in 0..999
lookupMap == [k \in 0..(LookupEntries - 1) |-> "value"]

\* Benchmark_SliceLookupBinarySearch: slice[i] = entry{Key: i, Value: "value"}
sortedSlice == [k \in 0..(LookupEntries - 1) |-> [Key |-> k, Value |-> "value"]]

\* Benchmark_SliceLookupDirect: slice[i] = "value"
directSlice == [k \in 0..(LookupEntries - 1) |-> "value"]

InitSearch ==
    /\ LayoutIdle /\ GrowthIdle /\ MapIdle /\ DriverIdle /\ CallIdle /\ MeasIdle
    /\ demo = DemoIdle /\ contents = ContentsIdle
    /\ template = TemplateIdle /\ wide = WideIdle
    /\ search = [SearchIdle EXCEPT !.pc = "outer", !.N = MaxSearchN]

\* for i := 0; i < b.N; i++ { key := i % 1000; low, high := 0, len(slice)-1
searchBegin ==
    /\ search.pc = "outer" /\ search.i < search.N
    /\ search' = [search EXCEPT !.key = search.i % LookupEntries,
                                !.low = 0, !.high = LookupEntries - 1,
                                !.probes = <<>>, !.pc = "loop"]
    /\ UNCHANGED <<notRecVars, demo, contents, template, wide>>

\* A loop step that moves low two past mid.
searchStepSkipsTwo ==
    /\ search.pc = "loop"
    /\ IF search.low <= search.high
       THEN LET mid == (search.low + search.high) \div 2 IN
            /\ mid \in DOMAIN sortedSlice
            /\ IF sortedSlice[mid].Key = search.key
               THEN search' = [search EXCEPT !.found = sortedSlice[mid].Value,
                                             !.probes = Append(@, mid), !.pc = "break"]
               ELSE IF sortedSlice[mid].Key < search.key
               THEN search' = [search EXCEPT !.low = mid + 2, !.probes = Append(@, mid)]
               ELSE search' = [search EXCEPT !.high = mid - 1, !.probes = Append(@, mid)]
       ELSE search' = [search EXCEPT !.misses = @ + 1, !.i = @ + 1, !.pc = "outer"]
    /\ UNCHANGED <<notRecVars, demo, contents, template, wide>>

\* for low <= high { mid := (low + high) / 2; ... }: one test of the loop
\* condition and, when it holds, one iteration; when it fails the loop is left
\* without a break and found keeps its value.
searchStep ==
    /\ search.pc = "loop"
    /\ IF search.low <= search.high
       THEN LET mid == (search.low + search.high) \div 2 IN
            /\ mid \in DOMAIN sortedSlice
            /\ IF sortedSlice[mid].Key = search.key
               THEN search' = [search EXCEPT !.found = sortedSlice[mid].Value,
                                             !.probes = Append(@, mid), !.pc = "break"]
               ELSE IF sortedSlice[mid].Key < search.key
               THEN search' = [search EXCEPT !.low = mid + 1, !.probes = Append(@, mid)]
               ELSE search' = [search EXCEPT !.high = mid - 1, !.probes = Append(@, mid)]
       ELSE search' = [search EXCEPT !.misses = @ + 1, !.i = @ + 1, !.pc = "outer"]
    /\ UNCHANGED <<notRecVars, demo, contents, template, wide>>

\* break: on to the next i
searchBreak ==
    /\ search.pc = "break"
    /\ search' = [search EXCEPT !.i = @ + 1, !.pc = "outer"]
    /\ UNCHANGED <<notRecVars, demo, contents, template, wide>>

\* _ = found
searchReturn ==
    /\ search.pc = "outer" /\ ~(search.i < search.N)
    /\ search' = [search EXCEPT !.pc = "done"]
    /\ UNCHANGED <<notRecVars, demo, contents, template, wide>>

NextSearch == searchBegin \/ searchStep \/ searchBreak \/ searchReturn

SpecSearch == InitSearch /\ [][NextSearch]_vars

(***************************************************************************)
(* Properties, Day 2 (checked under SpecGrowth)                            *)
(***************************************************************************)
Naive == fn = "benchmarkNaiveAppend"

WithMake == fn = "benchmarkWithMake"

FixedArray == fn = "benchmarkFixedArray"

\* The append counts and capacities Test_SliceGrowthPattern expects.
expectedGrowth ==
    {<<1, 1>>, <<2, 2>>, <<3, 4>>, <<5, 8>>, <<9, 16>>, <<17, 32>>, <<33, 64>>,
     <<1025, 1280>>}

\* C1: a slice built from empty by single appends has capacity 1, 2, 4, 8, 16,
\* 32, 64 after 1, 2, 3, 5, 9, 17, 33 appends and 1280 after 1025 appends.
C1_GrowthPattern ==
    (Naive /\ pc \in {"loop", "done"}) =>
        \A e \in expectedGrowth : dataLen = e[1] => dataCap = e[2]

C1_Witness ==
    Naive /\ pc = "done" /\ count = 1025 /\ dataLen = 1025 /\ dataCap = 1280

\* C2: the allocation count benchmarkNaiveAppend(N) returns equals the number
\* of capacity-growth steps needed to reach N elements.
C2_NaiveCountsGrowthSteps ==
    (Naive /\ pc = "done") => allocations = allocCount

\* C3: the pre-sized and the fixed strategy each report exactly one
\* allocation, and the pre-sized slice never outgrows the capacity reserved
\* for it: its capacity stays count and append never reallocates.
C3_OneAllocation ==
    /\ ((WithMake \/ FixedArray) /\ pc \in {"loop", "done"}) => allocations = 1
    /\ (WithMake /\ pc \in {"loop", "done"}) =>
          /\ dataLen <= dataCap
          /\ dataCap = count
          /\ allocCount = 0
    /\ (WithMake /\ pc = "done") => dataLen = count
    /\ (FixedArray /\ pc \in {"loop", "done"}) =>
          (dataLen = count /\ dataCap = count /\ allocCount = 0)

C3_Witness ==
    WithMake /\ pc = "done" /\ count = 1000 /\ dataLen = 1000 /\ allocations = 1

\* The single allocation of the pre-sized construction (the make() call).
allocCountPrealloc == 1

\* C4: for every N > 1 the naive construction increases its capacity more
\* often than the one allocation of the pre-sized construction; so it does
\* for N = 1000.
C4_NaiveAllocatesMore ==
    (Naive /\ pc = "done" /\ count > 1) => allocCount > allocCountPrealloc

C4_Witness ==
    Naive /\ pc = "done" /\ count = 1000 /\ allocCount > allocCountPrealloc

\* C8: 1000 naive appends make 11 allocations and copy 1023 elements already
\* stored; the pre-allocated construction makes 1 allocation and copies none.
C8_ThousandAppends ==
    /\ (Naive /\ pc = "done" /\ count = 1000) =>
          (allocCount = 11 /\ copied = 1023)
    /\ (WithMake /\ pc = "done" /\ count = 1000) =>
          (allocations = 1 /\ allocCount = 0 /\ copied = 0)

C8_Witness ==
    Naive /\ pc = "done" /\ count = 1000 /\ dataLen = 1000 /\ copied = 1023

\* C9: calculateGrowth(1000) returns 11 as reallocs, the number of
\* reallocations of 1000 appends without pre-allocation.
C9_ReallocsEleven ==
    (fn = "calculateGrowth" /\ pc = "done" /\ count = 1000) => reallocs = 11

\* C10: after its N appends the pre-allocated slice wastes no capacity and
\* the naively grown slice wastes at least as much; at every step of either
\* construction the length is at most the capacity.
C10_Waste ==
    /\ (WithMake /\ pc = "done") => dataCap - dataLen = 0
    /\ (Naive /\ pc = "done") => dataCap - dataLen >= 0
    /\ ((Naive \/ WithMake) /\ pc \in {"loop", "done"}) => dataLen <= dataCap

C10_Witness ==
    Naive /\ pc = "done" /\ count = 1000 /\ dataCap - dataLen = 24

(***************************************************************************)
(* Properties, Day 1 (checked under SpecLayout)                            *)
(***************************************************************************)
sizesMeasured == badSize # -1

offsetsMeasured == badOffsets # <<>>

\* Fields from the widest alignment requirement to the narrowest.
IsWideToNarrow(fields) ==
    \A k \in 1..(Len(fields) - 1) : fields[k].align >= fields[k + 1].align

\* Wide (aligned) and narrow (byte) fields in turn.
IsAlternating(fields) ==
    \A k \in 1..(Len(fields) - 1) :
        (fields[k].align > 1) # (fields[k + 1].align > 1)

\* C5: BadUser (int32, bool, string, int8) occupies 32 bytes; the order
\* 16-byte, 4-byte, 1-byte, 1-byte occupies 24; GoodUser as declared occupies
\* 24; so GoodUser is smaller than BadUser by at least 4 bytes.
C5_StructSizes ==
    sizesMeasured =>
        /\ badFields = BadUser => badSize = 32
        /\ goodFields = <<Name, ID, Active, Age>> => goodSize = 24
        /\ goodFields = GoodUser => goodSize = 24
        /\ (badFields = BadUser /\ goodFields = GoodUser) =>
              (goodSize < badSize /\ badSize - goodSize >= 4)

C5_Witness ==
    /\ badFields = BadUser /\ goodFields = GoodUser
    /\ badSize = 32 /\ goodSize = 24

\* C6: among the declaration orders of one field set, an order from widest
\* to narrowest alignment is no larger than any other order and strictly
\* smaller than an order alternating wide and narrow fields.
C6_WideToNarrowIsSmallest ==
    (sizesMeasured /\ IsWideToNarrow(goodFields)) =>
        /\ goodSize <= badSize
        /\ IsAlternating(badFields) => goodSize < badSize

C6_Witness ==
    /\ sizesMeasured
    /\ goodFields = <<Name, ID, Active, Age>>
    /\ IsAlternating(badFields)
    /\ badFields # BadUser
    /\ goodSize < badSize

C11_PreallocatedMapAllocatesLess ==
    /\ (tpiPc = "run2" /\ j >= 0) => mBuckets = makemap(size)
    /\ (tpiPc = "done" /\ size > BucketCnt) =>
          (alloc2 < alloc1 /\ alloc2 = 1 /\ ~tpiFailed)

C11_Witness ==
    tpiPc = "done" /\ size = 1000 /\ alloc1 = 9 /\ alloc2 = 1 /\ ~tpiFailed

C13_AnnualAndMonthlyFactors ==
    dpc = "done" =>
        /\ out["annual"] = Mul(out["monthly"], Num(12))
        /\ day = 2 => out["monthly"] = Mul(out["daily"], Num(30))

C13_Witness ==
    /\ day = 2 /\ dpc = "done"
    /\ meas["t1"] > meas["t2"]
    /\ out["daily"].m > 0 /\ out["monthly"].m > 0 /\ out["annual"].m > 0

\* C14: once a day's cost projection has run, it has emitted a figure for each
\* of the tiers 1M, 10M, 100M and 1B, the figure for U records being the 1M
\* figure times U / 1,000,000.
C14_EveryDayEmitsFourTiers ==
    dpc = "done" =>
        /\ Has(out, "scaling")
        /\ Len(out["scaling"]) = 4
        /\ \A k \in 1..Len(out["scaling"]) :
            /\ out["scaling"][k].users = userCounts[k]
            /\ out["scaling"][k].savings =
                 Div(Mul(out["scaling"][1].savings, Num(userCounts[k])), Num(1000000))

\* The delta a day's driver measures before its cost projection.
Delta(d, m) ==
    IF d = 1 THEN m["badMemory"] - m["goodMemory"]
    ELSE IF d = 2 THEN m["t1"] - m["t2"]
    ELSE m["mapMemory"] - m["sliceMemory"]

\* The measurements a run of a day's driver can make.
Measurements(d) ==
    IF d = 1 THEN {[badMemory |-> benchmarkUserMemory(BadUser, Day1Users),
                    goodMemory |-> benchmarkUserMemory(GoodUser, Day1Users)]}
    ELSE IF d = 2 THEN {[t1 |-> a, t2 |-> b,
                         m1 |-> returnedAllocations("benchmarkNaiveAppend", Day2Count),
                         m2 |-> returnedAllocations("benchmarkWithMake", Day2Count)] :
                            a \in Durations, b \in Durations}
    ELSE {[mapMemory |-> a, sliceMemory |-> b] : a \in ByteDeltas, b \in ByteDeltas}

\* The cost projection as the day's main invokes it after measuring m.
Projection(d, m) ==
    IF d = 1 THEN Day1Projection(m["badMemory"], m["goodMemory"])
    ELSE IF d = 2 THEN Day2Projection(m["t1"], m["t2"], m["m1"], m["m2"])
    ELSE Day3Projection

\* C15: a day's projection is computed from the delta measured in the same
\* run: any run of that day whose measured delta differs from this run's
\* projects a different monthly figure.
C15_ProjectionFollowsMeasurement ==
    dpc = "done" =>
        \A m2 \in Measurements(day) :
            Delta(day, m2) # Delta(day, meas) =>
                Projection(day, m2).monthly # out["monthly"]

\* C16: the Day 1 demo reports 32.00 MB for the first type, 24.00 MB for the
\* second and 8.00 MB saved for 1,000,000 users, and a memory improvement of
\* 25.0 percent.
C16_Day1ReportedMegabytes ==
    (day = 1 /\ dpc \in {"results", "done"}) =>
        /\ calls[1].args = <<1000000>>
        /\ out["badMB"] = 3200
        /\ out["goodMB"] = 2400
        /\ out["savedMB"] = 800
        /\ out["memoryImprovement"] = 250

\* The order of the calls in Day 2's main.
Day2Order ==
    <<"demoSliceGrowthProblem", "benchmarkNaiveAppend", "benchmarkWithMake",
      "benchmarkFixedArray", "explainSliceInternals", "demoUserProcessing",
      "calculateCostImpact">>

\* C19: Day 2's main runs the naive, pre-sized and fixed strategies once
\* each with N = 1,000,000, in that order, and then passes calculateCostImpact
\* the time and allocation results of the naive and the pre-sized run.
C19_Day2FixedOrder ==
    day = 2 =>
        /\ Len(calls) <= Len(Day2Order)
        /\ \A k \in 1..Len(calls) :
            /\ calls[k].fn = Day2Order[k]
            /\ k \in 2..4 => calls[k].args = <<1000000>>
        /\ dpc = "done" =>
            /\ Len(calls) = Len(Day2Order)
            /\ calls[7].args = <<calls[2].rets[1], calls[3].rets[1],
                                 calls[2].rets[2], calls[3].rets[2]>>
            /\ calls[2].rets[2] = 1000000 /\ calls[3].rets[2] = 1

C19_Witness ==
    /\ day = 2 /\ dpc = "done"
    /\ calls[7].fn = "calculateCostImpact"
    /\ calls[3].rets[1] # calls[4].rets[1]
    /\ calls[2].rets[1] # calls[3].rets[1]

(***************************************************************************)
(* Properties, repeated calls (checked under SpecCalls)                    *)
(***************************************************************************)
\* C17: two calls of the same measurement function with the same count leave
\* the same allocation counts, byte total, final length and capacity (and,
\* for calculateGrowth, the same capacity, reallocations and waste); the
\* values a returning function reports are those main's figures rest on.
C17_SameInputSameCounts ==
    /\ \A r1 \in results : \A r2 \in results :
        (r1.fn = r2.fn /\ r1.helper = r2.helper /\ r1.count = r2.count)
            => r1.result = r2.result
    /\ \A r \in results :
        /\ (r.fn \in UserFns /\ ~r.helper) =>
            /\ r.result.totalMemory = benchmarkUserMemory(UserFields(r.fn), r.count)
            /\ r.result.len = r.count
        /\ (r.fn \in Fns \ {"calculateGrowth"} /\ ~r.helper) =>
            /\ r.result.allocations = returnedAllocations(r.fn, r.count)
            /\ r.result.len = r.count

C17_Witness ==
    \E r1 \in results : \E r2 \in results :
        /\ r1.fn = r2.fn /\ r1.helper = r2.helper /\ r1.count = r2.count
        /\ r1.count > 0
        /\ r1.time # r2.time
        /\ r1.result = r2.result

MeasurePattern == <<"GC", "ReadMemStats", "op", "ReadMemStats", "diff">>

\* The statements executed, without the closing comparison of two results.
MeasureTrace == SelectSeq(trace, LAMBDA s : s # "vs")

\* C18: a memory measuring function that has finished has executed, once or
\* more, exactly: collect garbage, snapshot, operation, snapshot, report the
\* difference of the two snapshots.
C18_MeasureOrder ==
    NextStep = "end" =>
        /\ Len(MeasureTrace) > 0
        /\ Len(MeasureTrace) % Len(MeasurePattern) = 0
        /\ \A k \in 1..Len(MeasureTrace) :
            MeasureTrace[k] = MeasurePattern[((k - 1) % Len(MeasurePattern)) + 1]
        /\ \A k \in 1..Len(report) :
            report[k].kind = "diff" =>
                report[k].val = snap[2 * k].TotalAlloc - snap[2 * k - 1].TotalAlloc

(***************************************************************************)
(* Properties, calculateGrowth (checked under SpecGrowth)                  *)
(***************************************************************************)
\* C24: for every n >= 1 the capacity calculateGrowth(n) returns is the
\* capacity of a slice built by n single appends from empty, and the
\* reallocations it returns are that run's capacity increases minus one (the
\* first allocation is not a reallocation).
C24_CalculateGrowthMatchesAppend ==
    /\ (fn = "calculateGrowth" /\ pc = "done") =>
          /\ cap = calculateGrowthOf(count).finalCap
          /\ reallocs = calculateGrowthOf(count).reallocs
          /\ waste = calculateGrowthOf(count).waste
    /\ (Naive /\ pc = "done" /\ count >= 1) =>
          /\ dataCap = calculateGrowthOf(count).finalCap
          /\ allocCount - 1 = calculateGrowthOf(count).reallocs

C24_Witness ==
    /\ Naive /\ pc = "done" /\ count = 1025
    /\ dataCap = 1280 /\ allocCount = 12
    /\ calculateGrowthOf(1025).reallocs = 11

\* C26: for every target >= 1, calculateGrowth returns a capacity with
\* target <= finalCap < 2 * target; the wasted fraction (finalCap - target) /
\* finalCap is below 50%, and below 20% once target > 1024; the percentages
\* explainSliceInternals prints for its five capacities obey the same limits.
C26_WasteBounded ==
    (fn = "calculateGrowth" /\ pc = "done" /\ count >= 1) =>
        /\ count <= cap /\ cap < 2 * count
        /\ waste = cap - count
        /\ 2 * waste < cap
        /\ count > 1024 => 5 * waste < cap
        /\ \A k \in 1..Len(capacities) :
             LET row == explainSliceInternalsRow(capacities[k])
             IN /\ row.target <= row.cap /\ row.cap < 2 * row.target
                /\ row.wastePercent < 500
                /\ row.target > 1024 => row.wastePercent < 200

C26_Witness ==
    /\ fn = "calculateGrowth" /\ pc = "done" /\ count = 1025
    /\ cap = 1280 /\ waste = 255
    /\ explainSliceInternalsRow(100000).cap = 110965
    /\ explainSliceInternalsRow(100000).wastePercent = 99

(***************************************************************************)
(* Properties, template (checked under SpecTemplate)                       *)
(***************************************************************************)
\* C21: in the template as shipped the original and the optimized
\* implementation give the same result: TestOptimizationCorrectness compares
\* equal results and reports no error, and the two benchmarks leave the same
\* value in globalResult.
C21_TemplateResultsAgree ==
    template.pc = "done" =>
        /\ template.errors = 0
        /\ template.originalResult = template.optimizedResult
        /\ template.fn = "BenchmarkBeforeOptimization" => template.globalResult = 0

(***************************************************************************)
(* Properties, slice-growth demo (checked under SpecDemo)                  *)
(***************************************************************************)
\* C23: every line 'After n appends' that demoSliceGrowthProblem prints, for
\* n in 1, 2, 3, 4, 5, 9, 17, 33, describes a slice that has received exactly
\* n appends: its length is n and its capacity is the one of the growth table
\* (1, 2, 4, 4, 8, 16, 32, 64), which Test_SliceGrowthPattern asserts too.
C23_DemoLinesDescribeNAppends ==
    demo.fn = "demoSliceGrowthProblem" =>
        \A l \in 1..Len(demo.lines) :
            /\ demo.lines[l].n = growthPattern[l]
            /\ demo.lines[l].len = demo.lines[l].n
            /\ demo.lines[l].cap = <<1, 2, 4, 4, 8, 16, 32, 64>>[l]

C27_StrategiesStoreSameSequence ==
    /\ [](contents.pc = "done" =>
            /\ contents.len = contents.count
            /\ \A k \in 1..contents.count : contents.array[k] = k - 1
            /\ contents.fn \in {"benchmarkWithMake", "benchmarkFixedArray"} =>
                   Len(contents.array) = contents.count
            /\ contents.fn = "benchmarkNaiveAppend" =>
                   Len(contents.array) >= contents.count)
    /\ [][(contents.fn = "benchmarkNaiveAppend" /\ contents.pc = "loop") =>
             /\ contents'.len >= contents.len
             /\ \A k \in 1..contents.len : contents'.array[k] = contents.array[k]]_vars

C27_Witness ==
    /\ contents.fn = "benchmarkNaiveAppend" /\ contents.pc = "done"
    /\ contents.count = 17 /\ contents.len = 17
    /\ Len(contents.array) = 32
    /\ contents.array[17] = 16 /\ contents.array[1] = 0

(***************************************************************************)
(* Properties, binary search (checked under SpecSearch)                    *)
(***************************************************************************)
\* C28: for every key k in 0..999 the binary search of
\* Benchmark_SliceLookupBinarySearch finds the entry: the loop is always left
\* by break and never with low > high, every mid is an index in 0..999,
\* low <= k <= high holds whenever the loop condition is tested, and the value
\* found is the one the map holds for k and the one the direct slice holds at
\* index k.
C28_BinarySearchFinds ==
    /\ search.misses = 0
    /\ \A p \in 1..Len(search.probes) :
          search.probes[p] >= 0 /\ search.probes[p] <= LookupEntries - 1
    /\ search.pc = "loop" => search.low <= search.key /\ search.key <= search.high
    /\ search.pc = "break" =>
          /\ sortedSlice[search.probes[Len(search.probes)]].Key = search.key
          /\ search.found = lookupMap[search.key]
          /\ search.found = directSlice[search.key]

C28_Witness ==
    /\ search.pc = "break" /\ search.i = 999 /\ search.key = 999
    /\ Len(search.probes) = 10
    /\ search.found = "value"

=============================================================================
